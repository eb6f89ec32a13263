---------------------------- MODULE SocPlatform -----------------------------
(***************************************************************************)
(* The SoC as its firmware sees it through MMIO: the interrupt controller  *)
(* (rtl/irq/irq_controller.sv), the sticky status registers                *)
(* (rtl/regs/soc_register_block.sv), and the DMA engine and command path   *)
(* reduced to the job they run and the events they raise, wired to the     *)
(* interrupt sources as in rtl/soc/soc_top.sv.  A hardware step is one     *)
(* clock edge on which something happens.                                  *)
(***************************************************************************)
EXTENDS Integers, Sequences

CONSTANT None  \* no job, no task

VARIABLES
  irq_pending, irq_enable,
  irq_clear,          \* acknowledge pulse: clears pending one edge later
  dma_job,            \* what the DMA engine runs, None while it is idle
  dma_irq_enable,
  dma_done_sticky, dma_error_sticky,
  cmd_staged,         \* the descriptor behind CMD_STATUS.PENDING, or None
  cmd_queue,          \* the commands in the command path, the first executes
  cmd_retiring,       \* its executor is done, the processor not yet
  cmd_failed,         \* its executor reported an error
  cmd_done_sticky, cmd_error_sticky,
  error_status,       \* the set bits of ERROR_STATUS
  timer_enable

dmaVars == <<dma_job, dma_irq_enable, dma_done_sticky, dma_error_sticky>>
cmdVars == <<cmd_staged, cmd_queue, cmd_retiring, cmd_failed, cmd_done_sticky, cmd_error_sticky>>
irqVars == <<irq_pending, irq_enable, irq_clear>>
platformVars == <<irqVars, dmaVars, cmdVars, error_status, timer_enable>>

Sources == {"DMA_DONE", "CMD_DONE", "ACCEL_DONE", "ERROR", "TIMER"}

irq == irq_pending \cap irq_enable # {}

PlatformInit ==
  /\ irq_pending = {} /\ irq_enable = {} /\ irq_clear = {}
  /\ dma_job = None /\ dma_irq_enable = FALSE
  /\ dma_done_sticky = FALSE /\ dma_error_sticky = FALSE
  /\ cmd_staged = None /\ cmd_queue = <<>> /\ cmd_retiring = FALSE /\ cmd_failed = FALSE
  /\ cmd_done_sticky = FALSE /\ cmd_error_sticky = FALSE
  /\ error_status = {}
  /\ timer_enable = FALSE

----------------------------------------------------------------------------
(* Hardware events. *)

\* The pending register: an event wins over an acknowledge in its cycle.
Latch(sources) ==
  /\ irq_pending' = (irq_pending \ irq_clear) \cup sources
  /\ irq_clear' = {}
  /\ UNCHANGED irq_enable

ErrorSource(failed) == IF failed THEN {"ERROR"} ELSE {}

\* dma_done, with dma_error when the transfer failed.
DmaFinishes(failed) ==
  /\ dma_job # None
  /\ dma_job' = None
  /\ dma_done_sticky' = TRUE
  /\ dma_error_sticky' = (dma_error_sticky \/ failed)
  /\ error_status' = error_status \cup IF failed THEN {"ERR_ADDRESS", "ERR_INTERNAL"} ELSE {}
  /\ Latch((IF dma_irq_enable THEN {"DMA_DONE"} ELSE {}) \cup ErrorSource(failed))
  /\ UNCHANGED <<dma_irq_enable, cmdVars, timer_enable>>

\* The staged descriptor enters the command path.
CommandQueued ==
  /\ cmd_staged # None
  /\ cmd_staged' = None
  /\ cmd_queue' = Append(cmd_queue, cmd_staged)
  /\ Latch({})
  /\ UNCHANGED <<dmaVars, cmd_retiring, cmd_failed, cmd_done_sticky, cmd_error_sticky,
                 error_status, timer_enable>>

\* accelerator_done, before the processor has retired the command.
AcceleratorDone(failed) ==
  /\ cmd_queue # <<>> /\ ~cmd_retiring
  /\ cmd_retiring' = TRUE
  /\ cmd_failed' = failed
  /\ error_status' = error_status \cup IF failed THEN {"ERR_ADDRESS"} ELSE {}
  /\ Latch({"ACCEL_DONE"} \cup ErrorSource(failed))
  /\ UNCHANGED <<dmaVars, cmd_staged, cmd_queue, cmd_done_sticky, cmd_error_sticky,
                 timer_enable>>

\* command_completed, and the response consumed by the register block.
CommandCompleted ==
  /\ cmd_retiring
  /\ cmd_retiring' = FALSE
  /\ cmd_queue' = Tail(cmd_queue)
  /\ cmd_done_sticky' = TRUE
  /\ cmd_error_sticky' = (cmd_error_sticky \/ cmd_failed)
  /\ error_status' = error_status \cup IF cmd_failed THEN {"ERR_ADDRESS", "ERR_INTERNAL"} ELSE {}
  /\ Latch({"CMD_DONE"} \cup ErrorSource(cmd_failed))
  /\ UNCHANGED <<dmaVars, cmd_staged, cmd_failed, timer_enable>>

TimerTick ==
  /\ timer_enable
  /\ Latch({"TIMER"})
  /\ UNCHANGED <<dmaVars, cmdVars, error_status, timer_enable>>

\* An edge on which nothing happens but the acknowledge taking effect.
AcknowledgeTakesEffect ==
  /\ irq_clear # {}
  /\ Latch({})
  /\ UNCHANGED <<dmaVars, cmdVars, error_status, timer_enable>>

----------------------------------------------------------------------------
(* MMIO accesses.  Several cycles pass between two of them, so an           *)
(* acknowledge has always taken effect before the next access.              *)

MmioReady == irq_clear = {}

WriteIrqStatus(mask) ==
  /\ MmioReady
  /\ irq_clear' = mask
  /\ UNCHANGED <<irq_pending, irq_enable, dmaVars, cmdVars, error_status, timer_enable>>

\* CTRL.ENABLE, IRQ_ENABLE and TIMER_CTRL, as boot writes them.
WriteBootRegisters(mask, periodic) ==
  /\ MmioReady
  /\ irq_enable' = mask
  /\ timer_enable' = periodic
  /\ UNCHANGED <<irq_pending, irq_clear, dmaVars, cmdVars, error_status>>

ClearDmaStatus ==
  /\ MmioReady
  /\ dma_done_sticky' = FALSE
  /\ dma_error_sticky' = FALSE
  /\ UNCHANGED <<irqVars, dma_job, dma_irq_enable, cmdVars, error_status, timer_enable>>

\* DMA_CTRL with START and IRQ_ENABLE; refused while the engine is busy.
StartDma(job) ==
  /\ MmioReady
  /\ IF dma_job = None
       THEN dma_job' = job /\ dma_irq_enable' = TRUE /\ UNCHANGED error_status
       ELSE /\ error_status' = error_status \cup {"ERR_DMA_BUSY"}
            /\ UNCHANGED <<dma_job, dma_irq_enable>>
  /\ UNCHANGED <<irqVars, dma_done_sticky, dma_error_sticky, cmdVars, timer_enable>>

ClearCmdStatus ==
  /\ MmioReady
  /\ cmd_done_sticky' = FALSE
  /\ cmd_error_sticky' = FALSE
  /\ UNCHANGED <<irqVars, dmaVars, cmd_staged, cmd_queue, cmd_retiring, cmd_failed,
                 error_status, timer_enable>>

\* CMD_SUBMIT; refused while the previous descriptor is still staged.
SubmitCommand(job) ==
  /\ MmioReady
  /\ IF cmd_staged = None
       THEN cmd_staged' = job /\ UNCHANGED error_status
       ELSE error_status' = error_status \cup {"ERR_QUEUE_FULL"} /\ UNCHANGED cmd_staged
  /\ UNCHANGED <<irqVars, dmaVars, cmd_queue, cmd_retiring, cmd_failed, cmd_done_sticky,
                 cmd_error_sticky, timer_enable>>

ClearErrorStatus(mask) ==
  /\ MmioReady
  /\ error_status' = error_status \ mask
  /\ UNCHANGED <<irqVars, dmaVars, cmdVars, timer_enable>>
=============================================================================
