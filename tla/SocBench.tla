------------------------------ MODULE SocBench ------------------------------
(***************************************************************************)
(* Register programs of the SoC simulation (sim/verilator/sim_main.cpp),   *)
(* as driver calls of ControlPlane.  An access the test expects to be      *)
(* refused is a call of its own, since a refused access ends its call.     *)
(* A loop that polls a status is not cut off after kOperationTimeout.      *)
(***************************************************************************)
EXTENDS ControlPlane

run_mmio_dma(source, destination, length) ==
  <<write("REG_DMA_STATUS", DmaStatusBits),
    write("REG_DMA_SRC_ADDR", source), write("REG_DMA_DST_ADDR", destination),
    write("REG_DMA_LEN_BYTES", length),
    write("REG_DMA_CTRL", {DMA_CTRL_START, DMA_CTRL_IRQ_ENABLE}),
    poll("REG_DMA_STATUS", {DMA_STATUS_DONE}),
    poll("REG_IRQ_STATUS", {IRQ_DMA_DONE}),
    write("REG_IRQ_STATUS", {IRQ_DMA_DONE})>>

\* The driver's writes without its check of the staging register.
submit_command(command) ==
  Tail(AcceleratorSubmit(command)) \o <<poll("REG_CMD_STATUS", {CMD_STATUS_DONE})>>

wait_for_irq(mask) == <<poll("REG_IRQ_STATUS", mask)>>

enable_soc_and_interrupts ==
  <<write("REG_CTRL", {CTRL_ENABLE}), write("REG_IRQ_ENABLE", IRQ_SOURCES)>>

test_reset_and_mmio ==
  <<<<read("REG_SOC_ID"), read("REG_VERSION")>>,
    <<read("REG_ILLEGAL")>>,
    <<write("REG_ERROR_STATUS", {ErrorBit["ERR_ILLEGAL_MMIO"]})>> \o enable_soc_and_interrupts>>

test_mmio_dma == <<run_mmio_dma({8}, {9}, {0}), run_mmio_dma({9}, {8}, {0})>>

test_timer_and_performance(interval) ==
  <<TimerStartPeriodic(interval) \o wait_for_irq({IRQ_TIMER})
      \o <<write("REG_IRQ_STATUS", {IRQ_TIMER})>> \o TimerStop,
    PerformanceRead(PERF_TOTAL_CYCLES), PerformanceRead(PERF_COMMANDS_COMPLETED),
    PerformanceRead(PERF_QUEUE_HIGH_WATER)>>

----------------------------------------------------------------------------
(* The programs checked: short ones, each aimed at one way the registers    *)
(* are shared, and those of the simulation.                                 *)

Cmd(opcode, id) ==
  [NoCommand EXCEPT !["REG_CMD_OPCODE"] = ToBits(opcode), !["REG_CMD_ID"] = ToBits(id),
                    !["REG_CMD_PRIORITY"] = {0, 5}]

\* Writes of some lanes only.
WriteLanes(offset, data, strobe) == [write(offset, data) EXCEPT !.strobe = strobe]

Resubmit(id) == <<write("REG_CMD_ID", ToBits(id)), write("REG_CMD_SUBMIT", {CMD_SUBMIT})>>

MCPrograms ==
  {\* A counter is read while it counts, after it was cleared, and twice.
   <<PerformanceRead(PERF_TOTAL_CYCLES), PerformanceClear, PerformanceRead(PERF_TOTAL_CYCLES)>>,
   \* The queue fills up: depth, staging register, refusal; then a bad opcode.
   <<PerformanceClear, AcceleratorSubmit(Cmd(2, 1)), Resubmit(2), Resubmit(3),
     <<write("REG_CMD_OPCODE", {})>> \o Resubmit(4)>>,
   \* The policy through both registers, whole and by lanes.
   <<<<write("REG_SCHED_CTRL", {SCHED_POLICY, 9}),
       WriteLanes("REG_CTRL", {CTRL_ENABLE}, {1}),
       WriteLanes("REG_SCHED_CTRL", {8}, {1})>>, PerformanceClear,
     <<write("REG_CTRL", {CTRL_ENABLE, CTRL_PRIORITY_POLICY}),
       WriteLanes("REG_SCHED_CTRL", {}, {0})>>>>,
   \* The timer is started, serviced, restarted with another period, stopped.
   <<InterruptEnable({IRQ_TIMER}), TimerStartPeriodic(3), InterruptService,
     TimerStartPeriodic(2), InterruptService, TimerValue, TimerStop>>,
   \* Completions and ticks race their acknowledgement; a second start finds
   \* the engine busy or not.
   <<InterruptEnable({IRQ_DMA_DONE, IRQ_ERROR}), TimerStartPeriodic(3), DmaStart({8}, {9}, {4}),
     InterruptService, DmaStart({9}, {8}, {4})>>,
   \* A start without the driver's check of busy.
   <<DmaStart({8}, {9}, {4}), <<write("REG_DMA_CTRL", {DMA_CTRL_START})>>>>,
   \* Accesses that are refused.
   <<<<write("REG_STATUS", {0})>>, <<write("REG_ERROR_STATUS", {2})>>, <<write("REG_ILLEGAL", {})>>,
     <<read("REG_CMD_SUBMIT")>>, <<read("REG_ERROR_STATUS"), read("REG_QUEUE_STATUS")>>>>,
   \* The SoC simulation.
   test_reset_and_mmio \o <<submit_command(Cmd(3, 1))>> \o test_timer_and_performance(3),
   <<enable_soc_and_interrupts>> \o test_mmio_dma}
=============================================================================
