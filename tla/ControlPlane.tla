---------------------------- MODULE ControlPlane ----------------------------
(***************************************************************************)
(* Software and the control plane of the SoC: the drivers of               *)
(* firmware/drivers/hardware_drivers.cpp issue register accesses, an       *)
(* AXI-Lite manager carries them out, and the register block, the timer,   *)
(* the interrupt controller and the performance counters act on them,      *)
(* wired as in rtl/soc/soc_top.sv.  The DMA engine, the command queue and  *)
(* the command processor are reduced to what they show on these ports:     *)
(* busy, full, and completions at any time.  One step is one clock edge.   *)
(***************************************************************************)
EXTENDS RegisterBlock, SocTimer, IrqController, PerformanceCounters, Sequences

CONSTANTS
  Programs,      \* sequences of driver calls the software runs
  QUEUE_DEPTH,   \* command queue entries
  HALF_WIDTH     \* bits in the low half of a counter (DATA_WIDTH in the source)

\* The queue has an entry (soc_pkg.sv gives it 8); a response is not the absence of one.
ASSUME ControlAssumption ==
  /\ QUEUE_DEPTH \in Nat \ {0}
  /\ None \notin {"OKAY", "SLVERR"}

VARIABLES
  calls,        \* driver calls still to run; the first one is running
  access,       \* register accesses of the running call still to answer
  sent,         \* write addresses and data of them already accepted
  got,          \* halves of the counter value read so far
  dma_busy, running,        \* the DMA engine, the command processor
  occupancy, high_water,    \* the command queue
  executed,     \* history: times the first access was executed
  submitted,    \* history: descriptor of the last accepted submission
  sampled,      \* history: value of the counter when its low half was read
  seen, owed,   \* history: interrupts read; raised and not yet to be cleared
  since         \* history: cycles the timer counts since it was started or ticked

softwareVars == <<calls, access, sent, got>>
platformVars == <<dma_busy, running, occupancy, high_water>>
historyVars == <<executed, submitted, sampled, seen, owed, since>>
vars == <<registerVars, timerVars, irqVars, counters, softwareVars, platformVars, historyVars>>

----------------------------------------------------------------------------
(* Drivers: the accesses each call makes. *)

AllLanes == Lanes
write(offset, data) ==
  [offset |-> offset, data |-> data, strobe |-> AllLanes, write |-> TRUE, until |-> {}]

\* A read repeated until the bits are set; read(offset) is made once.
poll(offset, bits) ==
  [offset |-> offset, data |-> {}, strobe |-> {}, write |-> FALSE, until |-> bits]
read(offset) == poll(offset, {})

\* Offsets outside the map stand for one another.
Offsets == is_legal_offset \cup {"REG_ILLEGAL"}

Access ==
  [offset : Offsets, data : SUBSET (0 .. 31), strobe : SUBSET Lanes, write : BOOLEAN,
   until : SUBSET (0 .. 31)]

\* A write that clears interrupts.
Acknowledges(a) == a.write /\ a.offset = "REG_IRQ_STATUS" /\ a.data \cap IRQ_SOURCES # {}

\* Software writes IRQ_STATUS by itself only when it has just read all the bits
\* it clears there (wait_for_irq and run_mmio_dma of the simulation).
PolledBefore(call, i) ==
  /\ i > 1
  /\ call[i - 1].offset = "REG_IRQ_STATUS"
  /\ ~call[i - 1].write
  /\ call[i].data \cap IRQ_SOURCES \subseteq call[i - 1].until

ReadsCounter(a) == ~a.write /\ a.offset \in {"REG_PERF_VALUE", "REG_PERF_VALUE_HI"}

\* A counter is read as PerformanceDriver::read does: at most once in a call,
\* its high half just after its low half.
ReadAsDriver(call, i) ==
  /\ call[i].until = {}
  /\ IF call[i].offset = "REG_PERF_VALUE" THEN \A j \in 1 .. i - 1 : ~ReadsCounter(call[j])
     ELSE i > 1 /\ ~call[i - 1].write /\ call[i - 1].offset = "REG_PERF_VALUE"

ASSUME ProgramAssumption ==
  \A program \in Programs :
    /\ program \in Seq(Seq(Access))
    /\ \A k \in 1 .. Len(program) : \A i \in 1 .. Len(program[k]) :
         /\ Acknowledges(program[k][i]) => PolledBefore(program[k], i)
         /\ ReadsCounter(program[k][i]) => ReadAsDriver(program[k], i)

DmaStatusBits == {DMA_STATUS_DONE, DMA_STATUS_ERROR}
CmdStatusBits == {CMD_STATUS_DONE, CMD_STATUS_ERROR}

DmaStart(source, destination, length) ==
  <<read("REG_DMA_STATUS"), write("REG_DMA_STATUS", DmaStatusBits),
    write("REG_DMA_SRC_ADDR", source), write("REG_DMA_DST_ADDR", destination),
    write("REG_DMA_LEN_BYTES", length),
    write("REG_DMA_CTRL", {DMA_CTRL_START, DMA_CTRL_IRQ_ENABLE})>>

\* command gives a word for every field of the descriptor.
AcceleratorSubmit(command) ==
  <<read("REG_CMD_STATUS"), write("REG_CMD_STATUS", CmdStatusBits)>>
  \o [i \in 1 .. 11 |->
        LET order == <<"REG_CMD_OPCODE", "REG_CMD_SRC0_ADDR", "REG_CMD_SRC1_ADDR",
                       "REG_CMD_DST_ADDR", "REG_CMD_LEN", "REG_CMD_M", "REG_CMD_N",
                       "REG_CMD_K", "REG_CMD_FLAGS", "REG_CMD_PRIORITY", "REG_CMD_ID">>
        IN  write(order[i], command[order[i]])]
  \o <<write("REG_CMD_SUBMIT", {CMD_SUBMIT})>>

InterruptEnable(mask) == <<write("REG_IRQ_ENABLE", mask)>>

\* pending followed by acknowledge of what was read, as service_interrupts does.
InterruptService == <<read("REG_IRQ_STATUS")>>

TimerStartPeriodic(interval) ==
  <<write("REG_TIMER_CTRL",
          {TIMER_ENABLE, TIMER_PERIODIC} \cup ShiftLeft(ToBits(interval), TIMER_INTERVAL_LSB))>>

TimerStop == <<write("REG_TIMER_CTRL", {})>>
TimerValue == <<read("REG_TIMER_VALUE")>>

PerformanceRead(id) ==
  <<write("REG_PERF_SELECT", ToBits(id)), read("REG_PERF_VALUE"), read("REG_PERF_VALUE_HI")>>

PerformanceClear == <<write("REG_CTRL", {CTRL_ENABLE, CTRL_PERF_CLEAR})>>

\* What is left of a call after its first access, a read, returned data: the
\* drivers throw when the engine or the staging register is busy, and whoever
\* polls for a completion throws when it comes with an error.
AfterRead(data) ==
  LET offset == Head(access).offset
      until == Head(access).until
      rest == Tail(access)
      failed == \/ offset = "REG_DMA_STATUS" /\ DMA_STATUS_ERROR \in data
                \/ offset = "REG_CMD_STATUS" /\ CMD_STATUS_ERROR \in data
  IN  IF until # {}
      THEN IF ~(until \subseteq data) THEN access ELSE IF failed THEN <<>> ELSE rest
      ELSE CASE offset = "REG_DMA_STATUS" /\ DMA_STATUS_BUSY \in data -> <<>>
             [] offset = "REG_CMD_STATUS" /\ CMD_STATUS_PENDING \in data -> <<>>
             [] offset = "REG_IRQ_STATUS" /\ data # {} ->
                  <<write("REG_IRQ_STATUS", data)>> \o rest
             [] OTHER -> rest

----------------------------------------------------------------------------
(* The AXI-Lite manager.  The simulations send the address and the data of  *)
(* a write in either order or together; here those of consecutive writes    *)
(* may also run ahead of the responses.  A read waits for its turn.         *)

CanSend(n) ==
  /\ n < Len(access)
  /\ \A i \in 1 .. n + 1 : access[i].write

Bus(offer_aw, offer_w, offer_ar, ready) ==
  [aw |-> IF offer_aw /\ CanSend(sent.aw) THEN access[sent.aw + 1].offset ELSE None,
   w |-> IF offer_w /\ CanSend(sent.w)
           THEN [data |-> access[sent.w + 1].data, strobe |-> access[sent.w + 1].strobe]
           ELSE None,
   bready |-> ready,
   ar |-> IF offer_ar /\ access # <<>> /\ ~Head(access).write /\ r = None
            THEN Head(access).offset ELSE None,
   rready |-> ready]

\* The software side of an edge: what was accepted, what was answered.  An
\* access that is refused ends its call with an exception.
Software(bus) ==
  LET taken(valid, ready) == IF valid /\ ready THEN 1 ELSE 0
      moved == [aw |-> sent.aw + taken(bus.aw # None, awready),
                w |-> sent.w + taken(bus.w # None, wready)]
      answered == b # None /\ bus.bready
      returned == r # None /\ bus.rready
      refused == (answered /\ b # "OKAY") \/ (returned /\ r.resp # "OKAY")
  IN  IF access = <<>>
      THEN /\ calls # <<>>
           /\ access' = Head(calls)
           /\ calls' = Tail(calls)
           /\ got' = <<>>
           /\ UNCHANGED sent
      ELSE /\ access' = CASE refused -> <<>>
                          [] answered /\ ~refused -> Tail(access)
                          [] returned /\ ~refused -> AfterRead(r.data)
                          [] OTHER -> access
           /\ sent' = IF answered THEN [aw |-> moved.aw - 1, w |-> moved.w - 1] ELSE moved
           /\ got' = IF returned /\ Head(access).offset \in {"REG_PERF_VALUE", "REG_PERF_VALUE_HI"}
                       THEN Append(got, r.data) ELSE got
           /\ UNCHANGED calls

----------------------------------------------------------------------------
(* The rest of the SoC. *)

\* finish: how the DMA transfer ends in this cycle; accel and rsp: the error
\* code an accelerator reports, and the one the running command is answered
\* with; pop: the processor takes a command.
Platform(finish, rsp, pop) ==
  LET push == cmd_valid /\ occupancy < QUEUE_DEPTH
  IN  /\ dma_busy' = (dma_start \/ (dma_busy /\ finish = "none"))
      /\ running' = (pop \/ (running /\ rsp = None))
      /\ occupancy' = occupancy + (IF push THEN 1 ELSE 0) - (IF pop THEN 1 ELSE 0)
      /\ high_water' = IF push /\ ~pop THEN Max({high_water, occupancy + 1}) ELSE high_water

\* The two words of a counter.
LowHalf(n) == ToBits(n % 2^HALF_WIDTH)
HighHalf(n) == ToBits(n \div 2^HALF_WIDTH)

IsError(code) == code \notin {None, "ERR_NONE"}

Inputs(finish, accel, rsp) ==
  LET counter == selected_value(perf_select)
  IN  [soc_id |-> {}, version |-> {}, soc_busy |-> dma_busy \/ running \/ occupancy > 0,
       irq_pending |-> irq_pending, timer_value |-> value,
       dma_busy |-> dma_busy, dma_done |-> finish # "none", dma_error |-> finish = "error",
       queue_full |-> occupancy = QUEUE_DEPTH, cmd_full |-> occupancy = QUEUE_DEPTH,
       cmd_ready |-> occupancy < QUEUE_DEPTH, occupancy |-> occupancy,
       high_water |-> high_water, rsp |-> rsp,
       perf_low |-> LowHalf(counter), perf_high |-> HighHalf(counter),
       hardware_error_set |->
         (IF finish = "error" THEN error_code_mask("ERR_ADDRESS") ELSE {})
           \cup (IF IsError(accel) THEN error_code_mask(accel) ELSE {})
           \cup (IF IsError(rsp) THEN error_code_mask("ERR_INTERNAL") ELSE {})]

Sources(finish, accel, rsp) ==
  Bit(IRQ_DMA_DONE, finish # "none" /\ dma_irq_enable)
    \cup Bit(IRQ_CMD_DONE, rsp # None) \cup Bit(IRQ_ACCEL_DONE, accel # None)
    \cup Bit(IRQ_ERROR, finish = "error" \/ IsError(accel) \/ IsError(rsp))
    \cup Bit(IRQ_TIMER, timer_tick)

Events(rsp) ==
  [id \in Sums \cup Maxima |->
     CASE id = PERF_TOTAL_CYCLES -> 1
       [] id = PERF_DMA_ACTIVE_CYCLES -> IF dma_busy THEN 1 ELSE 0
       [] id = PERF_QUEUE_HIGH_WATER -> occupancy
       [] id = PERF_COMMANDS_COMPLETED -> IF rsp # None THEN 1 ELSE 0
       [] id = PERF_IRQ_LATENCY -> IF latency_valid THEN latency_cycles ELSE 0
       [] OTHER -> 0]

History(bus, in, sources) ==
  /\ executed' = IF b # None /\ bus.bready THEN 0
                 ELSE IF write_execute THEN executed + 1 ELSE executed
  /\ submitted' = IF write_side_effect(in) /\ Submits THEN Descriptor ELSE submitted
  /\ sampled' = IF read_execute(bus) /\ bus.ar = "REG_PERF_VALUE"
                  THEN selected_value(perf_select) ELSE sampled
  /\ LET sampling == read_execute(bus) /\ bus.ar = "REG_IRQ_STATUS"
         clearing == irq_clear # {}
     IN  /\ seen' = IF sampling THEN irq_pending ELSE IF clearing THEN {} ELSE seen
         /\ owed' = (IF sampling THEN {} ELSE IF clearing THEN owed \ seen ELSE owed)
                      \cup sources
  /\ since' = IF timer_config # previous THEN 0
              ELSE IF timer_tick THEN 1
              ELSE IF armed THEN since + 1 ELSE since

----------------------------------------------------------------------------

NoCommand == [f \in DOMAIN CommandFields |-> {}]

Init ==
  /\ RegisterInit /\ TimerInit /\ IrqInit /\ CountersInit
  /\ calls \in Programs
  /\ access = <<>>
  /\ sent = [aw |-> 0, w |-> 0]
  /\ got = <<>>
  /\ dma_busy = FALSE
  /\ occupancy = 0
  /\ high_water = 0
  /\ running = FALSE
  /\ executed = 0
  /\ submitted = NoCommand
  /\ sampled = 0
  /\ seen = {}
  /\ owed = {}
  /\ since = 0

SoftwareDone == calls = <<>> /\ access = <<>>

Clock(bus, finish, accel, rsp, pop) ==
  LET in == Inputs(finish, accel, rsp)
      sources == Sources(finish, accel, rsp)
  IN  /\ Platform(finish, rsp, pop)
      /\ RegisterClock(bus, in)
      /\ TimerClock(timer_config)
      /\ IrqClock(sources, irq_enable, irq_clear)
      /\ CountersClock(perf_clear, Events(rsp))
      /\ IF SoftwareDone THEN UNCHANGED softwareVars ELSE Software(bus)
      /\ History(bus, in, sources)

\* The whole SoC is reset and the software does not run on.
Reset ==
  /\ RegisterReset /\ TimerReset /\ IrqReset /\ CountersReset
  /\ calls' = <<>>
  /\ access' = <<>>
  /\ sent' = [aw |-> 0, w |-> 0]
  /\ got' = <<>>
  /\ dma_busy' = FALSE
  /\ occupancy' = 0
  /\ high_water' = 0
  /\ running' = FALSE
  /\ executed' = 0
  /\ submitted' = NoCommand
  /\ sampled' = 0
  /\ seen' = {}
  /\ owed' = {}
  /\ since' = 0

\* What the bus and the executors may do in a cycle.
BusMoves == {Bus(offer_aw, offer_w, offer_ar, ready) :
               offer_aw, offer_w, offer_ar, ready \in BOOLEAN}
DmaEndings == IF dma_busy THEN {"none", "done", "error"} ELSE {"none"}
Reports == IF running THEN {None, "ERR_NONE", "ERR_DIMENSION"} ELSE {None}
Pops == IF occupancy > 0 /\ ~running /\ global_enable THEN BOOLEAN ELSE {FALSE}

Tick ==
  \E bus \in BusMoves, finish \in DmaEndings, accel, rsp \in Reports, pop \in Pops :
    Clock(bus, finish, accel, rsp, pop)

Next == Tick \/ Reset

\* A clock edge at which the timer has something to count.
TimerAdvances == TimerClock(timer_config) /\ timerVars' # timerVars /\ Tick

\* The clock runs as long as the timer has something to count; neither
\* software nor bus nor executors have to make progress.
Spec == Init /\ [][Next]_vars /\ WF_timerVars(TimerAdvances)

----------------------------------------------------------------------------
(* Properties. *)

\* Whatever the order in which addresses and data arrive, each write is
\* executed exactly once, with its own data, before it is answered, and in
\* program order.
WriteOnce ==
  /\ write_execute => /\ Head(access).write
                      /\ aw = Head(access).offset
                      /\ w = [data |-> Head(access).data, strobe |-> Head(access).strobe]
  /\ executed = IF b # None THEN 1 ELSE 0

\* The queue receives the descriptor that was in the registers when the
\* submission was accepted: nothing written in between reaches the command
\* although it is read live.
AdmittedAsSubmitted == cmd_valid => Descriptor = submitted

\* The two halves PerformanceDriver::read returns belong to one value the
\* counter had, whatever it counts or is cleared to in between.
CounterReadCoherent ==
  Len(got) = 2 => got = <<LowHalf(sampled), HighHalf(sampled)>>

\* The policy bit software sees in CTRL is the one the scheduler uses, after
\* any sequence of whole and strobed writes of either register: clearing the
\* counters, which writes all of CTRL, resets both.
PolicyMirrored ==
  (CTRL_PRIORITY_POLICY \in regs["REG_CTRL"]) = scheduler_priority_mode

\* An interrupt that software has not read is still pending after it
\* acknowledged what it read, and so is one raised in the cycle of the clear.
UnreadInterruptKept == owed \ seen \subseteq irq_pending

\* A tick comes exactly one interval after the timer was started, restarted
\* by a change of its configuration, or ticked: no change shortens a period.
TimerPeriod ==
  /\ timer_tick => since = previous.interval
  /\ armed => since <= previous.interval

TimerRuns == timer_config.enable /\ timer_config.periodic /\ timer_config.interval > 0

\* A running periodic timer raises its interrupt, again and again, unless it
\* is stopped.
TimerFires == TimerRuns ~> (IRQ_TIMER \in irq_pending \/ ~TimerRuns)
=============================================================================
