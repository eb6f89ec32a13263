-------------------------- MODULE FirmwareScheduler --------------------------
(***************************************************************************)
(* The cooperative scheduler of the firmware                               *)
(* (firmware/rtos/cooperative_scheduler.cpp with its drivers), running     *)
(* against module SocPlatform.  A firmware step ends with an MMIO access:  *)
(* between any two of them the hardware may raise any event.  pc names the *)
(* next access of run_once.  Writes of operand registers, which only the   *)
(* following start or submit gives an effect, are one step with it.        *)
(* Statistics other than completion_order are left out.                    *)
(***************************************************************************)
EXTENDS SocPlatform, WorkloadApi, FiniteSets

CONSTANTS
  Calls,     \* the results of the submit calls the application makes
  WordBytes  \* bytes in a memory word, which the accelerators read whole

ASSUME FirmwareAssumption ==
  /\ None \notin Nat /\ None \notin Jobs /\ None \notin Commands
  /\ \A new \in Calls : \A t \in new : Admitted(t)

\* The parts of a slot are whole words, and applications keep their buffers
\* out of the scratchpad: the interface does not check it, the scheduler
\* relies on it (docs/architecture.md: inputs and results are external).
ASSUME BufferAssumption ==
  /\ WordBytes \in Nat \ {0}
  /\ \A offset \in {FIRMWARE_SOURCE1_OFFSET, FIRMWARE_DESTINATION_OFFSET,
                     FIRMWARE_TASK_SLOT_BYTES} : offset % WordBytes = 0
  /\ \A new \in Calls : \A t \in new : \A buffer \in Buffers(t.workload) : External(buffer)

VARIABLES
  tasks,    \* the task table, in submission order
  completion_order,
  active_dma_task, active_accelerator_task,
  pc,
  pending,  \* IRQ_STATUS as service_interrupts read it
  errors,   \* ERROR_STATUS as service_interrupts read it
  task,     \* the task run_once dispatches
  staged,   \* history: the stages whose effect on memory is complete, by task
  broken    \* history: the tasks one of whose jobs failed

firmwareVars == <<tasks, completion_order, active_dma_task, active_accelerator_task, pc, pending,
                  errors, task>>
schedulerVars == <<firmwareVars, staged, broken, platformVars>>

Ids == DOMAIN tasks

Workload(t) == tasks[t].workload

Terminal(t) == tasks[t].state \in {"DONE", "ERROR"}

\* Faulty variant: a unit is taken to be free always.
ResourceAlways(t) == TRUE

resource_available(t) ==
  CASE tasks[t].phase = "EXECUTE" -> active_accelerator_task = None
    [] tasks[t].phase = "COMPLETE" -> TRUE
    [] OTHER -> active_dma_task = None

Candidates == {t \in Ids : tasks[t].state = "READY" /\ resource_available(t)}

\* The highest priority, and among equals the earliest submission.
select_ready_task ==
  {t \in Candidates : \A u \in Candidates \ {t} :
     \/ tasks[t].priority > tasks[u].priority
     \/ tasks[t].priority = tasks[u].priority /\ t < u}

\* The task goes on with the given state and phase.
SetTask(t, state, phase) ==
  /\ tasks' = [tasks EXCEPT ![t].state = state, ![t].phase = phase]
  /\ UNCHANGED completion_order

\* The owner of the unit the task failed on is reset by the caller.
fail_task(t) == SetTask(t, "ERROR", tasks[t].phase)

finish_task(t) ==
  /\ tasks' = [tasks EXCEPT ![t].state = "DONE", ![t].phase = "COMPLETE"]
  /\ completion_order' = Append(completion_order, t)

----------------------------------------------------------------------------
(* Submission, between two calls of run_once. *)

Boot(periodic) ==
  /\ pc = "boot"
  /\ WriteBootRegisters(Sources, periodic)
  /\ pc' = "run_once"
  /\ UNCHANGED <<tasks, completion_order, active_dma_task, active_accelerator_task, pending, errors,
                 task, staged, broken>>

\* add_task; it throws when the table is full.
Submit(new) ==
  /\ pc = "run_once"
  /\ Len(tasks) < FIRMWARE_TASK_SLOT_COUNT
  /\ \E w \in new : tasks' = Append(tasks, w)
  /\ staged' = Append(staged, {})
  /\ UNCHANGED <<completion_order, active_dma_task, active_accelerator_task, pc, pending, errors, task,
                 broken, platformVars>>

----------------------------------------------------------------------------
(* service_interrupts. *)

\* run_once samples the interrupt line.
RunOnce ==
  /\ pc = "run_once"
  /\ pc' = IF irq THEN "read_pending" ELSE "select"
  /\ UNCHANGED <<tasks, completion_order, active_dma_task, active_accelerator_task, pending, errors,
                 task, staged, broken, platformVars>>

ReadPending ==
  /\ pc = "read_pending"
  /\ MmioReady
  /\ pending' = irq_pending
  /\ pc' = "dma_status"
  /\ UNCHANGED <<tasks, completion_order, active_dma_task, active_accelerator_task, errors, task,
                 staged, broken, platformVars>>

\* Faulty variant: the second source is never loaded.
SkipSource1(t) ==
  /\ active_dma_task' = None
  /\ IF ~dma_done_sticky \/ dma_error_sticky
       THEN fail_task(t)
       ELSE IF tasks[t].phase \in {"COPY", "STORE_OUTPUT"}
         THEN finish_task(t)
         ELSE SetTask(t, "READY", "EXECUTE")
  /\ UNCHANGED active_accelerator_task

\* Faulty variant: the error bit of the status is not looked at.
DmaErrorIgnored(t) ==
  /\ active_dma_task' = None
  /\ CASE tasks[t].phase \in {"COPY", "STORE_OUTPUT"} -> finish_task(t)
       [] tasks[t].phase = "LOAD_SOURCE0" ->
            SetTask(t, "READY", IF source1_bytes(Workload(t)) = 0 THEN "EXECUTE" ELSE "LOAD_SOURCE1")
       [] OTHER -> SetTask(t, "READY", "EXECUTE")
  /\ UNCHANGED active_accelerator_task

\* complete_dma with the status that was read: fail, finish or go on.
complete_dma(t) ==
  /\ active_dma_task' = None
  /\ IF ~dma_done_sticky \/ dma_error_sticky
       THEN fail_task(t)
       ELSE CASE tasks[t].phase \in {"COPY", "STORE_OUTPUT"} -> finish_task(t)
              [] tasks[t].phase = "LOAD_SOURCE0" ->
                   SetTask(t, "READY",
                           IF source1_bytes(Workload(t)) = 0 THEN "EXECUTE" ELSE "LOAD_SOURCE1")
              [] tasks[t].phase = "LOAD_SOURCE1" -> SetTask(t, "READY", "EXECUTE")
              [] OTHER -> fail_task(t)
  /\ UNCHANGED active_accelerator_task

\* Faulty variant: the accelerator stays owned by the finished task.
AcceleratorKept(t) ==
  /\ IF ~cmd_done_sticky \/ cmd_error_sticky
       THEN fail_task(t)
       ELSE SetTask(t, "READY", "STORE_OUTPUT")
  /\ UNCHANGED <<active_dma_task, active_accelerator_task>>

complete_accelerator(t) ==
  /\ active_accelerator_task' = None
  /\ IF ~cmd_done_sticky \/ cmd_error_sticky
       THEN fail_task(t)
       ELSE SetTask(t, "READY", "STORE_OUTPUT")
  /\ UNCHANGED active_dma_task

ReadDmaStatus ==
  /\ pc = "dma_status"
  /\ IF "DMA_DONE" \notin pending
       THEN /\ pc' = "cmd_status"
            /\ UNCHANGED <<tasks, completion_order, active_dma_task, active_accelerator_task>>
       ELSE /\ pc' = "dma_clear"
            /\ IF active_dma_task # None
                 THEN complete_dma(active_dma_task)
                 ELSE UNCHANGED <<tasks, completion_order, active_dma_task, active_accelerator_task>>
  /\ UNCHANGED <<pending, errors, task, staged, broken, platformVars>>

ReadCmdStatus ==
  /\ pc = "cmd_status"
  /\ IF "CMD_DONE" \notin pending
       THEN /\ pc' = "read_errors"
            /\ UNCHANGED <<tasks, completion_order, active_dma_task, active_accelerator_task>>
       ELSE /\ pc' = "cmd_clear"
            /\ IF active_accelerator_task # None
                 THEN complete_accelerator(active_accelerator_task)
                 ELSE UNCHANGED <<tasks, completion_order, active_dma_task, active_accelerator_task>>
  /\ UNCHANGED <<pending, errors, task, staged, broken, platformVars>>

Goto(from, to) ==
  /\ pc = from
  /\ pc' = to
  /\ UNCHANGED <<tasks, completion_order, active_dma_task, active_accelerator_task, pending, errors,
                 task, staged, broken>>

ServiceDmaClear == Goto("dma_clear", "cmd_status") /\ ClearDmaStatus
ServiceCmdClear == Goto("cmd_clear", "read_errors") /\ ClearCmdStatus

ReadErrors ==
  /\ pc = "read_errors"
  /\ errors' = IF "ERROR" \in pending THEN error_status ELSE {}
  /\ pc' = IF errors' # {} THEN "clear_errors" ELSE "acknowledge"
  /\ UNCHANGED <<tasks, completion_order, active_dma_task, active_accelerator_task, pending, task,
                 staged, broken, platformVars>>

ClearErrors == Goto("clear_errors", "acknowledge") /\ ClearErrorStatus(errors)

\* Faulty variant: every source is acknowledged, seen or not.
AcknowledgeAll ==
  /\ pc = "acknowledge"
  /\ WriteIrqStatus(Sources)
  /\ pc' = "select"
  /\ pending' = {}
  /\ errors' = {}
  /\ UNCHANGED <<tasks, completion_order, active_dma_task, active_accelerator_task, task, staged,
                 broken>>

\* Every source that was pending is acknowledged, in one write, and the
\* locals of service_interrupts go out of scope.
Acknowledge ==
  /\ pc = "acknowledge"
  /\ IF pending # {} THEN WriteIrqStatus(pending) ELSE UNCHANGED platformVars
  /\ pc' = "select"
  /\ pending' = {}
  /\ errors' = {}
  /\ UNCHANGED <<tasks, completion_order, active_dma_task, active_accelerator_task, task, staged,
                 broken>>

----------------------------------------------------------------------------
(* Selection and dispatch. *)

\* Nothing to dispatch: run_once returns.
Stall ==
  /\ Goto("select", "run_once")
  /\ select_ready_task = {}
  /\ UNCHANGED platformVars

\* DmaDriver::start and AcceleratorDriver::submit throw on a transfer without
\* bytes or an invalid opcode before they look at the status, and on a busy
\* unit after it.
DmaRefuses(t) ==
  \/ Transfer(t - 1, Workload(t), tasks[t].phase)[3] \in {0, Overflow}
  \/ dma_job # None

CommandRefused(t) == Workload(t).opcode = "INVALID" \/ cmd_staged # None

\* dispatch, up to the status read of the driver; run_once fails the task when
\* the driver throws.
BeginDispatch ==
  /\ pc = "select"
  /\ MmioReady
  /\ \E t \in select_ready_task :
       LET execute == tasks[t].phase = "EXECUTE"
       IN  IF IF execute THEN CommandRefused(t) ELSE DmaRefuses(t)
             THEN /\ fail_task(t)
                  /\ pc' = "run_once"
                  /\ UNCHANGED task
             ELSE /\ SetTask(t, "RUNNING", tasks[t].phase)
                  /\ pc' = IF execute THEN "cmd_prepare" ELSE "dma_prepare"
                  /\ task' = t
  /\ UNCHANGED <<active_dma_task, active_accelerator_task, pending, errors, staged,
                 broken, platformVars>>

PrepareDma == Goto("dma_prepare", "dma_start") /\ ClearDmaStatus
PrepareCommand == Goto("cmd_prepare", "cmd_submit") /\ ClearCmdStatus

DmaJob(t, phase) ==
  LET transfer == Transfer(t - 1, Workload(t), phase)
  IN  [task |-> t, phase |-> phase, source |-> transfer[1], destination |-> transfer[2],
       length |-> transfer[3]]

DispatchDma ==
  /\ pc = "dma_start"
  /\ StartDma(DmaJob(task, tasks[task].phase))
  /\ active_dma_task' = task
  /\ SetTask(task, "BLOCKED_ON_DMA", tasks[task].phase)
  /\ pc' = "run_once"
  /\ task' = None
  /\ UNCHANGED <<active_accelerator_task, pending, errors, staged, broken>>

CommandOf(t) == make_command(t - 1, Workload(t), tasks[t].priority)

DispatchAccelerator ==
  /\ pc = "cmd_submit"
  /\ SubmitCommand(CommandOf(task))
  /\ active_accelerator_task' = task
  /\ SetTask(task, "BLOCKED_ON_ACCEL", tasks[task].phase)
  /\ pc' = "run_once"
  /\ task' = None
  /\ UNCHANGED <<active_dma_task, pending, errors, staged, broken>>

----------------------------------------------------------------------------
(* Hardware events, with the history of what each job did to memory. *)

TaskOf(command) == command.command_id + 1

Record(t, phase, failed) ==
  /\ staged' = IF failed THEN staged ELSE [staged EXCEPT ![t] = @ \cup {phase}]
  /\ broken' = IF failed THEN broken \cup {t} ELSE broken

DmaEvent ==
  \E failed \in BOOLEAN :
    /\ DmaFinishes(failed)
    /\ Record(dma_job.task, dma_job.phase, failed)
    /\ UNCHANGED firmwareVars

AcceleratorEvent ==
  \E failed \in BOOLEAN :
    /\ AcceleratorDone(failed)
    /\ Record(TaskOf(Head(cmd_queue)), "EXECUTE", failed)
    /\ UNCHANGED firmwareVars

OtherEvent ==
  /\ CommandQueued \/ CommandCompleted \/ TimerTick \/ AcknowledgeTakesEffect
  /\ UNCHANGED <<firmwareVars, staged, broken>>

----------------------------------------------------------------------------

SchedulerInit ==
  /\ PlatformInit
  /\ tasks = <<>> /\ completion_order = <<>> /\ staged = <<>> /\ broken = {}
  /\ active_dma_task = None /\ active_accelerator_task = None
  /\ pc = "boot" /\ pending = {} /\ errors = {} /\ task = None

FirmwareStep ==
  \/ \E periodic \in BOOLEAN : Boot(periodic)
  \/ RunOnce \/ ReadPending \/ ReadDmaStatus \/ ServiceDmaClear \/ ReadCmdStatus
  \/ ServiceCmdClear \/ ReadErrors \/ ClearErrors \/ Acknowledge
  \/ Stall \/ BeginDispatch \/ PrepareDma \/ PrepareCommand
  \/ DispatchDma \/ DispatchAccelerator

SchedulerNext ==
  \/ \E new \in Calls : Submit(new)
  \/ FirmwareStep
  \/ DmaEvent \/ AcceleratorEvent \/ OtherEvent

Spec == SchedulerInit /\ [][SchedulerNext]_schedulerVars

\* run_once is called for ever, the clock runs and every job ends.
FairSpec == Spec /\ WF_schedulerVars(FirmwareStep) /\ WF_schedulerVars(DmaEvent)
            /\ WF_schedulerVars(AcceleratorEvent)
            /\ WF_schedulerVars(CommandQueued /\ UNCHANGED <<firmwareVars, staged, broken>>)
            /\ WF_schedulerVars(CommandCompleted /\ UNCHANGED <<firmwareVars, staged, broken>>)
            /\ WF_schedulerVars(AcknowledgeTakesEffect
                                 /\ UNCHANGED <<firmwareVars, staged, broken>>)

----------------------------------------------------------------------------
(* Properties. *)

\* A task that waits for hardware has its job running, or the completion is
\* visible to the next interrupt service, in status and in pending alike: no
\* wake-up is lost between reading, clearing and acknowledging.
NoLostWakeup ==
  /\ active_dma_task # None =>
       \/ dma_job # None /\ dma_job.task = active_dma_task
       \/ "DMA_DONE" \in irq_pending \ irq_clear /\ dma_done_sticky
  /\ active_accelerator_task # None =>
       \/ cmd_staged # None /\ TaskOf(cmd_staged) = active_accelerator_task
       \/ Len(cmd_queue) = 1 /\ TaskOf(cmd_queue[1]) = active_accelerator_task
       \/ "CMD_DONE" \in irq_pending \ irq_clear /\ cmd_done_sticky

\* Each unit works for at most one task, the one the scheduler blocks on it;
\* the two ownerships are independent (DMA and accelerator stages overlap).
OwnershipConsistent ==
  \A t \in Ids :
    /\ tasks[t].state = "BLOCKED_ON_DMA" <=> active_dma_task = t
    /\ tasks[t].state = "BLOCKED_ON_ACCEL" <=> active_accelerator_task = t

TwoOperands(t) == Workload(t).opcode \in {"VECTOR_ADD", "VECTOR_CLAMP", "GEMM"}

\* The stages a task needs before the given phase.
Needs(t, phase) ==
  CASE phase \in {"COPY", "LOAD_SOURCE0", "LOAD_SOURCE1"} -> {}
    [] phase = "EXECUTE" -> {"LOAD_SOURCE0"} \cup IF TwoOperands(t) THEN {"LOAD_SOURCE1"} ELSE {}
    [] phase = "STORE_OUTPUT" -> {"EXECUTE"}
    [] phase = "COMPLETE" -> {IF Workload(t).kind = "DMA_COPY" THEN "COPY" ELSE "STORE_OUTPUT"}

\* A stage starts only when the data it reads is in place, and a task is done
\* only when its result reached its destination.
StagesInOrder == \A t \in Ids : Needs(t, tasks[t].phase) \subseteq staged[t]

\* A task fails if, and once everyone has looked only if, one of its jobs
\* failed: no task is failed by the status of another task's job, by a status
\* that was not there yet, or by a unit found busy; completion_order lists
\* every finished task once.
FailureIsOwn ==
  \A t \in Ids : /\ tasks[t].state = "ERROR" => t \in broken
                 /\ tasks[t].state = "DONE" => t \notin broken
                 /\ Cardinality({i \in DOMAIN completion_order : completion_order[i] = t})
                      = IF tasks[t].state = "DONE" THEN 1 ELSE 0

\* The byte ranges of a command's operands, in whole words, and of a transfer.
Words(n) == ((n + WordBytes - 1) \div WordBytes) * WordBytes

Operands(command) ==
  LET w == Workload(TaskOf(command))
  IN  {<<command.source0, Words(source0_bytes(w))>>,
       <<command.destination, Words(output_bytes(w))>>}
      \cup IF TwoOperands(TaskOf(command))
             THEN {<<command.source1, Words(source1_bytes(w))>>} ELSE {}

SourceRange(job) == <<job.source, job.length>>
DestinationRange(job) == <<job.destination, job.length>>

Disjoint(r, s) == r[1] + r[2] <= s[1] \/ s[1] + s[2] <= r[1]

InSlot(r, t) == Slot(t - 1) <= r[1] /\ r[1] + r[2] <= Slot(t)

Running == {cmd_queue[i] : i \in DOMAIN cmd_queue}
             \cup IF cmd_staged = None THEN {} ELSE {cmd_staged}

\* While the DMA engine and an accelerator work side by side, for different
\* tasks, neither touches scratchpad bytes of the other: every operand, in
\* whole words, lies in the slot of its task, apart from the task's other
\* operands, up to the largest workload the interface admits and the last slot.
NoScratchConflict ==
  /\ \A c \in Running : \A r \in Operands(c) :
       /\ InSlot(r, TaskOf(c))
       /\ r[1] + r[2] <= SPM_BASE_ADDR + SPM_SIZE_BYTES
       /\ \A s \in Operands(c) \ {r} : Disjoint(r, s)
       /\ dma_job # None => /\ Disjoint(r, SourceRange(dma_job))
                            /\ Disjoint(r, DestinationRange(dma_job))
  /\ dma_job # None /\ dma_job.phase # "COPY" =>
       InSlot(IF dma_job.phase = "STORE_OUTPUT" THEN SourceRange(dma_job)
              ELSE DestinationRange(dma_job),
              dma_job.task)

\* Every submitted task becomes terminal.
TasksTerminate ==
  \A t \in 1 .. FIRMWARE_TASK_SLOT_COUNT : t \in Ids ~> t \in Ids /\ Terminal(t)

\* "Sticky hardware errors are read and cleared" (docs/firmware.md): no error
\* bit stays set for ever.
ErrorsDrained == error_status # {} ~> error_status = {}
=============================================================================
