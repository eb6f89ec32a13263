--------------------------- MODULE FirmwareProofs ---------------------------
(***************************************************************************)
(* The cooperative scheduler for every set of calls, table size and order  *)
(* of hardware events.                                                     *)
(***************************************************************************)
EXTENDS FirmwareScheduler, FiniteSetTheorems, TLAPS

----------------------------------------------------------------------------
(* The operands of an admitted workload. *)

\* A product grows with its factors.
LEMMA ProductGrows ==
  ASSUME NEW a \in Nat, NEW b \in Nat, NEW c \in Nat, NEW d \in Nat, a <= c, b <= d
  PROVE  a * b <= c * d /\ a * b \in Nat /\ (a > 0 /\ b > 0 => a * b > 0)
<1>1. a * b <= c * b
  OBVIOUS
<1>2. c * b <= c * d
  OBVIOUS
<1>3. a * b \in Nat /\ c * b \in Nat /\ c * d \in Nat
  OBVIOUS
<1>4. a > 0 /\ b > 0 => a * b > 0
  OBVIOUS
<1> QED BY <1>1, <1>2, <1>3, <1>4

\* Division with remainder.
LEMMA Quotient ==
  ASSUME NEW a \in Nat, NEW b \in Nat \ {0}
  PROVE  /\ a \div b \in Nat
         /\ (a \div b) * b <= a /\ a < (a \div b) * b + b
         /\ a % b = 0 => a = (a \div b) * b
OBVIOUS

\* The size of an operand of n elements, and of r by c elements.
LEMMA VectorBytes ==
  ASSUME NEW n \in Nat \ {0}, NEW max \in Nat, n <= max, NEW part \in Int,
         max * kElementBytes <= part, part <= UINT32_MAX
  PROVE  checked_product(n, kElementBytes) \in 1 .. part
<1>1. kElementBytes \in Nat \ {0} /\ UINT32_MAX \in Nat
  BY LayoutAssumption
<1>2. n * kElementBytes <= max * kElementBytes /\ n * kElementBytes \in Nat
      /\ n * kElementBytes > 0
  BY <1>1, ProductGrows
<1>3. max * kElementBytes \in Nat
  BY <1>1
<1> QED BY <1>1, <1>2, <1>3 DEF checked_product, Overflow

\* A matrix no larger than the largest fits the part of the slot for that one.
LEMMA MatrixBytes ==
  ASSUME NEW r \in Nat \ {0}, NEW c \in Nat \ {0}, NEW rmax \in Nat, NEW cmax \in Nat,
         r <= rmax, c <= cmax, NEW part \in Int,
         (rmax * cmax) * kElementBytes <= part, part <= UINT32_MAX
  PROVE  Matrix(r, c) \in 1 .. part
<1>1. kElementBytes \in Nat \ {0} /\ UINT32_MAX \in Nat
  BY LayoutAssumption
<1>2. r * c <= rmax * cmax /\ r * c \in Nat \ {0}
  BY ProductGrows
<1>3. rmax * cmax \in Nat
  OBVIOUS
<1>4. (rmax * cmax) * 1 <= (rmax * cmax) * kElementBytes
  BY <1>1, <1>3, ProductGrows
<1>5. (rmax * cmax) * kElementBytes \in Nat
  BY <1>1, <1>3
<1>6. r * c <= UINT32_MAX
  BY <1>1, <1>2, <1>3, <1>4, <1>5
<1>7. checked_product(r, c) = r * c
  BY <1>1, <1>2, <1>6 DEF checked_product, Overflow
<1>8. \A n \in Nat \ {0}, max \in Nat :
        n <= max /\ max * kElementBytes <= part
          => checked_product(n, kElementBytes) \in 1 .. part
  BY VectorBytes
<1>9. checked_product(r * c, kElementBytes) \in 1 .. part
  BY <1>2, <1>3, <1>8, Zenon
<1> QED BY <1>7, <1>9 DEF Matrix

TwoOperandOpcodes == {"VECTOR_ADD", "VECTOR_CLAMP", "GEMM"}

\* Every operand of an admitted workload fits its part of the slot, none is
\* empty but the second one of a command that takes one operand only.
LEMMA OperandsFit ==
  ASSUME NEW w, AdmittedWorkload(w), w.kind # "DMA_COPY"
  PROVE  /\ source0_bytes(w) \in 1 .. FIRMWARE_SOURCE1_OFFSET
         /\ IF w.opcode \in TwoOperandOpcodes
              THEN source1_bytes(w) \in
                     1 .. FIRMWARE_DESTINATION_OFFSET - FIRMWARE_SOURCE1_OFFSET
              ELSE source1_bytes(w) = 0
         /\ output_bytes(w) \in 1 .. FIRMWARE_TASK_SLOT_BYTES - FIRMWARE_DESTINATION_OFFSET
         /\ w.opcode # "INVALID"
<1> DEFINE p0 == FIRMWARE_SOURCE1_OFFSET
           p1 == FIRMWARE_DESTINATION_OFFSET - FIRMWARE_SOURCE1_OFFSET
           p2 == FIRMWARE_TASK_SLOT_BYTES - FIRMWARE_DESTINATION_OFFSET
<1>1. /\ p0 \in Int /\ p1 \in Int /\ p2 \in Int
      /\ kElementBytes <= p0 /\ kElementBytes <= p1 /\ kElementBytes <= p2
      /\ kElementBytes \in Nat \ {0}
  BY LayoutAssumption
<1>2. p0 <= UINT32_MAX /\ p1 <= UINT32_MAX /\ p2 <= UINT32_MAX
  BY <1>1, LayoutAssumption
<1>3. CASE w.kind = "VECTOR"
  <2>1. w.length \in Nat \ {0} /\ w.length <= DEFAULT_MAX_VECTOR_LENGTH
        /\ DEFAULT_MAX_VECTOR_LENGTH \in Nat
    BY <1>3, LayoutAssumption DEF AdmittedWorkload
  <2>2. \A part \in {p0, p1, p2} : checked_product(w.length, kElementBytes) \in 1 .. part
    BY <1>1, <1>2, <2>1, VectorBytes, LayoutAssumption
  <2> QED BY <1>3, <2>2 DEF AdmittedWorkload, TwoOperandOpcodes, source0_bytes, source1_bytes,
                            output_bytes
<1>4. CASE w.kind = "REDUCTION"
  <2>1. w.length \in Nat \ {0} /\ w.length <= DEFAULT_MAX_REDUCTION_LENGTH
        /\ DEFAULT_MAX_REDUCTION_LENGTH \in Nat
    BY <1>4, LayoutAssumption DEF AdmittedWorkload
  <2>2. checked_product(w.length, kElementBytes) \in 1 .. p0
    BY <1>1, <1>2, <2>1, VectorBytes, LayoutAssumption
  <2>3. kElementBytes \in 1 .. p2
    BY <1>1
  <2> QED BY <1>4, <2>2, <2>3 DEF AdmittedWorkload, TwoOperandOpcodes, source0_bytes,
                                  source1_bytes, output_bytes
<1>5. CASE w.kind = "GEMM"
  <2>1. /\ w.rows \in Nat \ {0} /\ w.rows <= DEFAULT_MAX_GEMM_M /\ DEFAULT_MAX_GEMM_M \in Nat
        /\ w.columns \in Nat \ {0} /\ w.columns <= DEFAULT_MAX_GEMM_N /\ DEFAULT_MAX_GEMM_N \in Nat
        /\ w.inner \in Nat \ {0} /\ w.inner <= DEFAULT_MAX_GEMM_K /\ DEFAULT_MAX_GEMM_K \in Nat
        /\ w.opcode = "GEMM"
    BY <1>5, LayoutAssumption DEF AdmittedWorkload
  <2>2. Matrix(w.rows, w.inner) \in 1 .. p0
    BY <1>1, <1>2, <2>1, MatrixBytes, LayoutAssumption
  <2>3. Matrix(w.inner, w.columns) \in 1 .. p1
    BY <1>1, <1>2, <2>1, MatrixBytes, LayoutAssumption
  <2>4. Matrix(w.rows, w.columns) \in 1 .. p2
    BY <1>1, <1>2, <2>1, MatrixBytes, LayoutAssumption
  <2> QED BY <1>5, <2>1, <2>2, <2>3, <2>4 DEF TwoOperandOpcodes, source0_bytes, source1_bytes,
                                              output_bytes
<1> QED BY <1>3, <1>4, <1>5 DEF AdmittedWorkload

----------------------------------------------------------------------------
(* The invariant. *)

DmaPhases == {"COPY", "LOAD_SOURCE0", "LOAD_SOURCE1", "STORE_OUTPUT"}

Task == [priority : Nat, state : TaskStates, phase : TaskPhases,
         workload : {w \in Workloads : AdmittedWorkload(w)}]

\* Where service_interrupts works on what it read as pending.
AfterDma == {"dma_clear", "cmd_status", "cmd_clear", "read_errors", "clear_errors",
             "acknowledge"}
AfterCmd == {"cmd_clear", "read_errors", "clear_errors", "acknowledge"}
Servicing == {"dma_status"} \cup AfterDma
DmaDispatch == {"dma_prepare", "dma_start"}
CmdDispatch == {"cmd_prepare", "cmd_submit"}
Idle == {"select", "run_once", "read_pending"}

\* Only the task being dispatched runs, and the unit it needs is free.
DispatchInv ==
  /\ pc \in {"boot"} \cup Idle \cup Servicing \cup DmaDispatch \cup CmdDispatch
  /\ pc \in DmaDispatch \cup CmdDispatch => task \in Ids /\ tasks[task].state = "RUNNING"
  /\ \A t \in Ids : tasks[t].state = "RUNNING" => /\ pc \in DmaDispatch \cup CmdDispatch
                                                  /\ t = task
  /\ pc \in DmaDispatch => active_dma_task = None /\ tasks[task].phase \in DmaPhases
  /\ pc \in CmdDispatch => active_accelerator_task = None /\ tasks[task].phase = "EXECUTE"

OwnerInv ==
  /\ active_dma_task \in Ids \cup {None}
  /\ active_accelerator_task \in Ids \cup {None}
  /\ OwnershipConsistent
  /\ \A t \in Ids :
       /\ tasks[t].state = "BLOCKED_ON_DMA" => tasks[t].phase \in DmaPhases
       /\ tasks[t].state = "BLOCKED_ON_ACCEL" => tasks[t].phase = "EXECUTE"
       /\ tasks[t].phase = "COMPLETE" <=> tasks[t].state = "DONE"

\* What is acknowledged is what was pending at the read, still latched.
ServiceInv ==
  /\ irq_clear # {} => pc \in Idle
  /\ pending \subseteq irq_pending
  /\ pending # {} => pc \in Servicing
  /\ pc = "dma_clear" => "DMA_DONE" \in pending
  /\ pc = "cmd_clear" => "CMD_DONE" \in pending

\* Completions not yet looked at.
DmaNews == "DMA_DONE" \in irq_pending \ irq_clear
            /\ ~(pc \in AfterDma /\ "DMA_DONE" \in pending)
CmdNews == "CMD_DONE" \in irq_pending \ irq_clear
            /\ ~(pc \in AfterCmd /\ "CMD_DONE" \in pending)

CmdBusy == cmd_staged # None \/ cmd_queue # <<>>

\* The DMA engine works for the task that owns it; once it has ended, the news
\* of it is unread and its status is in place.
DmaInv ==
  /\ active_dma_task = None => dma_job = None /\ ~DmaNews
  /\ active_dma_task # None =>
       IF dma_job # None
       THEN /\ dma_job.task = active_dma_task
            /\ dma_job.phase = tasks[active_dma_task].phase
            /\ dma_irq_enable /\ ~DmaNews /\ ~dma_done_sticky /\ ~dma_error_sticky
       ELSE DmaNews /\ dma_done_sticky
  /\ pc = "dma_start" => ~dma_done_sticky /\ ~dma_error_sticky
  /\ pc \in AfterDma /\ "DMA_DONE" \in pending => active_dma_task = None

CmdInv ==
  /\ active_accelerator_task = None => ~CmdBusy /\ ~CmdNews
  /\ active_accelerator_task # None =>
       IF CmdBusy
       THEN /\ \/ /\ cmd_staged # None /\ TaskOf(cmd_staged) = active_accelerator_task
                  /\ cmd_queue = <<>>
               \/ /\ cmd_staged = None /\ Len(cmd_queue) = 1 /\ cmd_queue = <<cmd_queue[1]>>
                  /\ TaskOf(cmd_queue[1]) = active_accelerator_task
            /\ ~CmdNews /\ ~cmd_done_sticky /\ ~cmd_error_sticky
       ELSE CmdNews /\ cmd_done_sticky
  /\ cmd_retiring => cmd_queue # <<>>
  /\ pc = "cmd_submit" => ~cmd_done_sticky /\ ~cmd_error_sticky
  /\ pc \in AfterCmd /\ "CMD_DONE" \in pending => active_accelerator_task = None

\* A job that failed is reported by the status its owner will read, and by
\* nothing else.
FailInv ==
  /\ \A t \in Ids : /\ tasks[t].state = "ERROR" => t \in broken
                    /\ tasks[t].state \in {"READY", "RUNNING", "DONE"} => t \notin broken
  /\ broken \subseteq Ids
  /\ active_dma_task # None =>
       active_dma_task \in broken <=> dma_job = None /\ dma_error_sticky
  /\ active_accelerator_task # None =>
       active_accelerator_task \in broken
         <=> IF CmdBusy THEN cmd_retiring /\ cmd_failed ELSE cmd_error_sticky

OrderInv ==
  /\ completion_order \in Seq(Ids)
  /\ \A i \in DOMAIN completion_order : tasks[completion_order[i]].state = "DONE"
  /\ \A t \in Ids : tasks[t].state = "DONE" => \E i \in DOMAIN completion_order :
                                                  completion_order[i] = t
  /\ \A i, j \in DOMAIN completion_order : completion_order[i] = completion_order[j] => i = j

\* The stages every task has behind it are those its phase calls for.
PhaseInv ==
  /\ DOMAIN staged = Ids
  /\ StagesInOrder
  /\ \A t \in Ids :
       /\ tasks[t].phase = "COPY" => Workload(t).kind = "DMA_COPY"
       /\ Workload(t).kind = "DMA_COPY" => tasks[t].phase \in {"COPY", "COMPLETE"}
       /\ tasks[t].phase = "LOAD_SOURCE1" => /\ "LOAD_SOURCE0" \in staged[t]
                                             /\ source1_bytes(Workload(t)) # 0

\* A job that ended well has had its effect on memory.
StageInv ==
  /\ PhaseInv
  /\ active_dma_task # None /\ dma_job = None /\ active_dma_task \notin broken
       => tasks[active_dma_task].phase \in staged[active_dma_task]
  /\ active_accelerator_task # None /\ (cmd_retiring \/ ~CmdBusy)
       /\ active_accelerator_task \notin broken
       => "EXECUTE" \in staged[active_accelerator_task]

TasksOK == tasks \in Seq(Task)

FirmwareInv ==
  TasksOK /\ DispatchInv /\ OwnerInv /\ ServiceInv /\ DmaInv /\ CmdInv /\ FailInv /\ OrderInv
  /\ StageInv

----------------------------------------------------------------------------
(* Steps that leave the task table alone. *)

tableVars == <<tasks, completion_order, active_dma_task, active_accelerator_task, task, staged,
               broken>>

\* What concerns the table only.
LEMMA TableKept ==
  ASSUME TasksOK, OwnerInv, OrderInv, UNCHANGED tableVars
  PROVE  TasksOK' /\ OwnerInv' /\ OrderInv'
BY DEF tableVars, TasksOK, OwnerInv, OwnershipConsistent, OrderInv, Ids

jobVars == <<dma_job, dma_irq_enable, dma_done_sticky, dma_error_sticky, cmdVars>>

\* What concerns the table and the jobs.
LEMMA JobsKept ==
  ASSUME FailInv, StageInv, UNCHANGED tableVars, UNCHANGED jobVars
  PROVE  FailInv' /\ StageInv'
BY DEF tableVars, jobVars, cmdVars, FailInv, StageInv, PhaseInv, StagesInOrder, Needs, TwoOperands,
       Workload, Ids, CmdBusy

\* What concerns the table and whether the jobs have ended.
LEMMA StagesKept ==
  ASSUME StageInv, UNCHANGED tableVars, UNCHANGED <<dma_job, cmd_staged, cmd_queue, cmd_retiring>>
  PROVE  StageInv'
BY DEF tableVars, StageInv, PhaseInv, StagesInOrder, Needs, TwoOperands, Workload, Ids, CmdBusy

\* Steps of the firmware between the reads and writes that matter to a job.
LEMMA QuietSteps ==
  ASSUME FirmwareInv,
         \/ \E periodic \in BOOLEAN : Boot(periodic)
         \/ RunOnce \/ ReadPending \/ ReadErrors \/ ClearErrors \/ Acknowledge \/ Stall
  PROVE  FirmwareInv'
<1>1. UNCHANGED tableVars /\ UNCHANGED jobVars
  BY DEF tableVars, jobVars, cmdVars, dmaVars, platformVars, Boot, RunOnce, ReadPending, ReadErrors,
         ClearErrors, Acknowledge, Stall, Goto, WriteBootRegisters, ClearErrorStatus,
         WriteIrqStatus
<1>2. TasksOK' /\ OwnerInv' /\ OrderInv' /\ FailInv' /\ StageInv'
  BY <1>1, TableKept, JobsKept DEF FirmwareInv
<1> USE DEF FirmwareInv, AfterDma, AfterCmd, Servicing, DmaDispatch, CmdDispatch, Idle
<1>3. DispatchInv'
  BY <1>1 DEF tableVars, DispatchInv, Boot, RunOnce, ReadPending, ReadErrors, ClearErrors,
              Acknowledge, Stall, Goto, Ids
<1>4. ServiceInv'
  BY DEF ServiceInv, DispatchInv, Boot, RunOnce, ReadPending, ReadErrors, ClearErrors, Acknowledge,
         Stall, Goto, WriteBootRegisters, ClearErrorStatus, WriteIrqStatus, MmioReady,
         platformVars, irqVars
<1>5. DmaInv'
  BY <1>1 DEF tableVars, jobVars, DmaInv, DmaNews, ServiceInv, Boot, RunOnce, ReadPending, ReadErrors,
         ClearErrors, Acknowledge, Stall, Goto, WriteBootRegisters, ClearErrorStatus,
         WriteIrqStatus, MmioReady, platformVars, irqVars
<1>6. CmdInv'
  BY <1>1 DEF tableVars, jobVars, cmdVars, CmdInv, CmdNews, CmdBusy, ServiceInv, Boot, RunOnce,
         ReadPending, ReadErrors, ClearErrors, Acknowledge, Stall, Goto, WriteBootRegisters,
         ClearErrorStatus, WriteIrqStatus, MmioReady, platformVars, irqVars, TaskOf
<1> QED BY <1>2, <1>3, <1>4, <1>5, <1>6

\* A status is cleared only when no completion it reports is still to be read:
\* after its service, or before the unit is started.
LEMMA ClearSteps ==
  ASSUME FirmwareInv, ServiceDmaClear \/ ServiceCmdClear \/ PrepareDma \/ PrepareCommand
  PROVE  FirmwareInv'
<1>1. UNCHANGED tableVars
  BY DEF tableVars, ServiceDmaClear, ServiceCmdClear, PrepareDma, PrepareCommand, Goto
<1>2. TasksOK' /\ OwnerInv' /\ OrderInv'
  BY <1>1, TableKept DEF FirmwareInv
<1> USE DEF FirmwareInv, AfterDma, AfterCmd, Servicing, DmaDispatch, CmdDispatch, Idle, Goto,
            MmioReady, irqVars, dmaVars, cmdVars, ServiceDmaClear, ServiceCmdClear, PrepareDma,
            PrepareCommand, ClearDmaStatus, ClearCmdStatus
<1>3. DispatchInv'
  BY <1>1 DEF tableVars, DispatchInv, Ids
<1>4. ServiceInv'
  BY DEF ServiceInv
<1>5. pc \in {"dma_clear", "dma_prepare"} => active_dma_task = None
  BY DEF DmaInv, DispatchInv, ServiceInv
<1>6. pc \in {"cmd_clear", "cmd_prepare"} => active_accelerator_task = None
  BY DEF CmdInv, DispatchInv, ServiceInv
<1>7. DmaInv'
  BY <1>1, <1>5 DEF tableVars, DmaInv, DmaNews, ServiceInv
<1>8. CmdInv'
  BY <1>1, <1>6 DEF tableVars, CmdInv, CmdNews, CmdBusy, ServiceInv, TaskOf
<1>9. FailInv'
  BY <1>1, <1>5, <1>6 DEF tableVars, FailInv, CmdBusy, Ids
<1>10. StageInv'
  BY <1>1, StagesKept
<1> QED BY <1>2, <1>3, <1>4, <1>7, <1>8, <1>9, <1>10

----------------------------------------------------------------------------
(* Hardware events. *)

\* Between the read of the pending sources and their acknowledgement no edge
\* takes one of them away.
LEMMA ServiceKept ==
  ASSUME ServiceInv, NEW sources, Latch(sources), UNCHANGED <<pc, pending>>
  PROVE  ServiceInv'
BY DEF ServiceInv, Latch, Idle, Servicing, AfterDma

\* Edges on which no executor ends: a command is queued or retired, the timer
\* ticks, an acknowledge takes effect.
LEMMA OtherEdges ==
  ASSUME FirmwareInv, OtherEvent
  PROVE  FirmwareInv'
<1>1. UNCHANGED tableVars /\ UNCHANGED <<pc, pending>>
  BY DEF tableVars, OtherEvent, firmwareVars
<1>2. TasksOK' /\ OwnerInv' /\ OrderInv'
  BY <1>1, TableKept DEF FirmwareInv
<1> USE DEF FirmwareInv, Latch, irqVars, dmaVars, cmdVars
<1>3. DispatchInv'
  BY <1>1 DEF tableVars, DispatchInv, Ids
<1>4. ServiceInv'
  <2>1. \E sources : Latch(sources)
    BY DEF OtherEvent, CommandQueued, CommandCompleted, TimerTick, AcknowledgeTakesEffect
  <2> QED BY <1>1, <2>1, ServiceKept
<1>5. DmaInv'
  BY <1>1 DEF tableVars, DmaInv, DmaNews, OtherEvent, CommandQueued, CommandCompleted, TimerTick,
              AcknowledgeTakesEffect, ErrorSource
<1>6. CASE TimerTick \/ AcknowledgeTakesEffect
  <2>1. CmdInv'
    BY <1>1, <1>6 DEF tableVars, CmdInv, CmdNews, CmdBusy, TimerTick, AcknowledgeTakesEffect, TaskOf
  <2>2. FailInv' /\ StageInv'
    BY <1>1, <1>6, JobsKept DEF TimerTick, AcknowledgeTakesEffect, jobVars
  <2> QED BY <1>2, <1>3, <1>4, <1>5, <2>1, <2>2
<1>7. CASE CommandQueued
  <2>1. /\ active_accelerator_task # None
        /\ TaskOf(cmd_staged) = active_accelerator_task
        /\ cmd_queue' = <<cmd_staged>> /\ cmd_staged' = None
        /\ Len(cmd_queue') = 1 /\ cmd_queue'[1] = cmd_staged
        /\ ~cmd_retiring /\ ~cmd_retiring'
    <3>1. /\ active_accelerator_task # None /\ cmd_queue = <<>> /\ ~cmd_retiring
          /\ TaskOf(cmd_staged) = active_accelerator_task
      BY <1>7 DEF CommandQueued, CmdInv, CmdBusy
    <3>2. cmd_queue' = Append(<<>>, cmd_staged) /\ cmd_staged' = None /\ ~cmd_retiring'
      BY <1>7, <3>1 DEF CommandQueued
    <3>3. Append(<<>>, cmd_staged) = <<cmd_staged>> /\ Len(<<cmd_staged>>) = 1
          /\ <<cmd_staged>>[1] = cmd_staged
      OBVIOUS
    <3> QED BY <3>1, <3>2, <3>3
  <2>2. CmdBusy /\ CmdBusy'
    BY <2>1, <1>7 DEF CmdBusy, CommandQueued
  <2>3. CmdInv'
    BY <1>1, <1>7, <2>1, <2>2 DEF tableVars, CmdInv, CmdNews, CommandQueued, TaskOf
  <2>4. FailInv'
    BY <1>1, <1>7, <2>1, <2>2 DEF tableVars, FailInv, CommandQueued, Ids
  <2>5. StageInv'
    BY <1>1, <1>7, <2>1, <2>2 DEF tableVars, StageInv, PhaseInv, StagesInOrder, Needs,
                                  TwoOperands, Workload, Ids, CommandQueued
  <2> QED BY <1>2, <1>3, <1>4, <1>5, <2>3, <2>4, <2>5
<1>8. CASE CommandCompleted
  <2>1. /\ active_accelerator_task # None
        /\ cmd_queue = <<cmd_queue[1]>> /\ cmd_staged = None /\ CmdBusy
        /\ ~cmd_error_sticky
        /\ cmd_queue' = <<>> /\ cmd_staged' = None
    <3>1. /\ active_accelerator_task # None
          /\ cmd_queue = <<cmd_queue[1]>> /\ cmd_staged = None /\ CmdBusy
          /\ ~cmd_error_sticky
      BY <1>8 DEF CommandCompleted, CmdInv, CmdBusy
    <3>2. Tail(<<cmd_queue[1]>>) = <<>>
      OBVIOUS
    <3> QED BY <1>8, <3>1, <3>2 DEF CommandCompleted
  <2>2. ~CmdBusy'
    BY <2>1 DEF CmdBusy
  <2>3. CmdInv'
    BY <1>1, <1>8, <2>1, <2>2 DEF tableVars, CmdInv, CmdNews, CommandCompleted, TaskOf,
                                  DispatchInv, CmdDispatch
  <2>4. FailInv'
    BY <1>1, <1>8, <2>1, <2>2 DEF tableVars, FailInv, CommandCompleted, Ids
  <2>5. StageInv'
    BY <1>1, <1>8, <2>1, <2>2 DEF tableVars, StageInv, PhaseInv, StagesInOrder, Needs,
                                  TwoOperands, Workload, Ids, CommandCompleted
  <2> QED BY <1>2, <1>3, <1>4, <1>5, <2>3, <2>4, <2>5
<1> QED BY <1>6, <1>7, <1>8 DEF OtherEvent

\* The DMA engine ends its job: the owner is told, in status and in pending.
LEMMA DmaEnds ==
  ASSUME FirmwareInv, DmaEvent
  PROVE  FirmwareInv'
<1>1. PICK failed \in BOOLEAN :
        /\ DmaFinishes(failed)
        /\ Record(dma_job.task, dma_job.phase, failed)
        /\ UNCHANGED firmwareVars
  BY DEF DmaEvent
<1> DEFINE t == active_dma_task
<1>2. /\ UNCHANGED <<tasks, completion_order, active_dma_task, active_accelerator_task, task, pc,
                     pending, cmdVars>>
      /\ dma_job # None /\ dma_job' = None
  BY <1>1 DEF firmwareVars, DmaFinishes
<1> USE DEF FirmwareInv
<1>3. /\ t \in Ids /\ t # None /\ dma_job.task = t /\ dma_job.phase = tasks[t].phase
      /\ dma_irq_enable /\ ~dma_error_sticky
      /\ tasks[t].state = "BLOCKED_ON_DMA" /\ t \notin broken
      /\ active_accelerator_task # t
  <2>1. t # None
    BY <1>2 DEF DmaInv
  <2>2. t \in Ids /\ tasks[t].state = "BLOCKED_ON_DMA"
    BY <2>1 DEF OwnerInv, OwnershipConsistent
  <2>3. tasks[t].state # "BLOCKED_ON_ACCEL"
    BY <2>2
  <2>4. active_accelerator_task # t
    BY <2>2, <2>3 DEF OwnerInv, OwnershipConsistent
  <2> QED BY <1>2, <2>1, <2>2, <2>4 DEF DmaInv, FailInv
<1>4. /\ staged' = IF failed THEN staged ELSE [staged EXCEPT ![t] = @ \cup {tasks[t].phase}]
      /\ broken' = IF failed THEN broken \cup {t} ELSE broken
  BY <1>1, <1>3 DEF Record
<1> HIDE DEF t
<1>5. TasksOK' /\ OwnerInv' /\ OrderInv'
  BY <1>2 DEF TasksOK, OwnerInv, OwnershipConsistent, OrderInv, Ids
<1>6. DispatchInv'
  BY <1>2 DEF DispatchInv, Ids
<1>7. ServiceInv'
  BY <1>1, <1>2, ServiceKept DEF DmaFinishes
<1>8. DmaInv'
  <2>1. dma_done_sticky' /\ "DMA_DONE" \in irq_pending' \ irq_clear'
    BY <1>1, <1>3 DEF DmaFinishes, Latch
  <2>2. active_dma_task' # None /\ ~(pc' \in AfterDma /\ "DMA_DONE" \in pending')
    BY <1>2, <1>3 DEF DmaInv, t
  <2>3. pc' # "dma_start"
    BY <1>2, <1>3 DEF DispatchInv, DmaDispatch, t
  <2> QED BY <1>2, <2>1, <2>2, <2>3 DEF DmaInv, DmaNews
<1>9. CmdInv'
  BY <1>1, <1>2 DEF CmdInv, CmdNews, CmdBusy, cmdVars, DmaFinishes, Latch, ErrorSource, TaskOf
<1>10. FailInv'
  <2>1. active_accelerator_task' \in broken' <=> active_accelerator_task \in broken
    BY <1>2, <1>3, <1>4
  <2>2. active_dma_task' \in broken' <=> failed
    BY <1>2, <1>3, <1>4 DEF t
  <2>3. dma_error_sticky' <=> failed
    BY <1>1, <1>3 DEF DmaFinishes
  <2> QED BY <1>2, <1>3, <1>4, <2>1, <2>2, <2>3 DEF FailInv, Ids, CmdBusy, cmdVars
<1>11. StageInv'
  <2>1. \A u \in Ids : staged[u] \subseteq staged'[u]
    BY <1>3, <1>4 DEF StageInv, PhaseInv
  <2>2. DOMAIN staged' = Ids'
    BY <1>2, <1>4 DEF StageInv, PhaseInv, Ids
  <2>3. ~failed => tasks[t].phase \in staged'[t]
    BY <1>3, <1>4 DEF StageInv, PhaseInv
  <2>4. StagesInOrder'
    BY <1>2, <2>1 DEF StageInv, PhaseInv, StagesInOrder, Needs, TwoOperands, Workload, Ids
  <2>5. /\ active_dma_task' \notin broken' =>
             tasks'[active_dma_task'].phase \in staged'[active_dma_task']
        /\ \A u \in Ids' : tasks'[u].phase = "LOAD_SOURCE1" => /\ "LOAD_SOURCE0" \in staged'[u]
                                                             /\ source1_bytes(Workload(u))' # 0
    BY <1>2, <1>3, <1>4, <2>1, <2>3 DEF StageInv, PhaseInv, Workload, Ids, t
  <2>6. active_accelerator_task' # None /\ (cmd_retiring' \/ ~CmdBusy')
           /\ active_accelerator_task' \notin broken'
           => "EXECUTE" \in staged'[active_accelerator_task']
    BY <1>2, <1>3, <1>4, <2>1 DEF StageInv, PhaseInv, OwnerInv, CmdBusy, cmdVars
  <2> QED BY <1>2, <2>2, <2>4, <2>5, <2>6 DEF StageInv, PhaseInv, Workload, Ids
<1> QED BY <1>5, <1>6, <1>7, <1>8, <1>9, <1>10, <1>11

\* The executor ends its command, which the processor has yet to retire.
LEMMA AcceleratorEnds ==
  ASSUME FirmwareInv, AcceleratorEvent
  PROVE  FirmwareInv'
<1>1. PICK failed \in BOOLEAN :
        /\ AcceleratorDone(failed)
        /\ Record(TaskOf(Head(cmd_queue)), "EXECUTE", failed)
        /\ UNCHANGED firmwareVars
  BY DEF AcceleratorEvent
<1> DEFINE t == active_accelerator_task
<1>2. /\ UNCHANGED <<tasks, completion_order, active_dma_task, active_accelerator_task, task, pc,
                     pending, dmaVars, cmd_staged, cmd_queue, cmd_done_sticky, cmd_error_sticky>>
      /\ cmd_queue # <<>> /\ ~cmd_retiring /\ cmd_retiring' /\ cmd_failed' = failed
  BY <1>1 DEF firmwareVars, AcceleratorDone
<1> USE DEF FirmwareInv
<1>3. /\ t \in Ids /\ t # None /\ TaskOf(Head(cmd_queue)) = t /\ CmdBusy
      /\ tasks[t].state = "BLOCKED_ON_ACCEL" /\ t \notin broken
      /\ active_dma_task # t
  <2>1. t # None /\ CmdBusy /\ TaskOf(cmd_queue[1]) = t
    BY <1>2 DEF CmdInv, CmdBusy
  <2>2. t \in Ids /\ tasks[t].state = "BLOCKED_ON_ACCEL"
    BY <2>1 DEF OwnerInv, OwnershipConsistent
  <2>3. tasks[t].state # "BLOCKED_ON_DMA"
    BY <2>2
  <2>4. active_dma_task # t
    BY <2>2, <2>3 DEF OwnerInv, OwnershipConsistent
  <2>5. Head(cmd_queue) = cmd_queue[1]
    OBVIOUS
  <2> QED BY <1>2, <2>1, <2>2, <2>4, <2>5 DEF FailInv
<1>4. /\ staged' = IF failed THEN staged ELSE [staged EXCEPT ![t] = @ \cup {"EXECUTE"}]
      /\ broken' = IF failed THEN broken \cup {t} ELSE broken
  BY <1>1, <1>3 DEF Record
<1> HIDE DEF t
<1>5. TasksOK' /\ OwnerInv' /\ OrderInv'
  BY <1>2 DEF TasksOK, OwnerInv, OwnershipConsistent, OrderInv, Ids
<1>6. DispatchInv'
  BY <1>2 DEF DispatchInv, Ids
<1>7. ServiceInv'
  BY <1>1, <1>2, ServiceKept DEF AcceleratorDone
<1>8. DmaInv'
  BY <1>1, <1>2 DEF DmaInv, DmaNews, AcceleratorDone, Latch, ErrorSource, dmaVars
<1>9. CmdInv'
  <2>1. CmdNews' <=> CmdNews
    BY <1>1, <1>2 DEF CmdNews, AcceleratorDone, Latch, ErrorSource
  <2>2. CmdBusy' <=> CmdBusy
    BY <1>2 DEF CmdBusy
  <2> QED BY <1>2, <2>1, <2>2 DEF CmdInv, TaskOf
<1>10. FailInv'
  <2>1. active_dma_task' \in broken' <=> active_dma_task \in broken
    BY <1>2, <1>3, <1>4
  <2>2. active_accelerator_task' \in broken' <=> failed
    BY <1>2, <1>3, <1>4 DEF t
  <2>3. CmdBusy'
    BY <1>2 DEF CmdBusy
  <2> QED BY <1>2, <1>3, <1>4, <2>1, <2>2, <2>3 DEF FailInv, Ids, dmaVars
<1>11. StageInv'
  <2>1. \A u \in Ids : staged[u] \subseteq staged'[u]
    BY <1>3, <1>4 DEF StageInv, PhaseInv
  <2>2. DOMAIN staged' = Ids'
    BY <1>2, <1>4 DEF StageInv, PhaseInv, Ids
  <2>3. ~failed => "EXECUTE" \in staged'[t]
    BY <1>3, <1>4 DEF StageInv, PhaseInv
  <2>4. StagesInOrder'
    BY <1>2, <2>1 DEF StageInv, PhaseInv, StagesInOrder, Needs, TwoOperands, Workload, Ids
  <2>5. active_accelerator_task' \notin broken' => "EXECUTE" \in staged'[active_accelerator_task']
    BY <1>2, <1>3, <1>4, <2>3 DEF t
  <2>6. /\ active_dma_task' # None /\ dma_job' = None /\ active_dma_task' \notin broken'
             => tasks'[active_dma_task'].phase \in staged'[active_dma_task']
        /\ \A u \in Ids' : tasks'[u].phase = "LOAD_SOURCE1" => /\ "LOAD_SOURCE0" \in staged'[u]
                                                             /\ source1_bytes(Workload(u))' # 0
    BY <1>2, <1>3, <1>4, <2>1 DEF StageInv, PhaseInv, OwnerInv, Workload, Ids, dmaVars
  <2> QED BY <1>2, <2>2, <2>4, <2>5, <2>6 DEF StageInv, PhaseInv, Workload, Ids
<1> QED BY <1>5, <1>6, <1>7, <1>8, <1>9, <1>10, <1>11

----------------------------------------------------------------------------
(* Steps that change the task table. *)

\* The table after one entry moved on.
Moved(t, state, phase) ==
  /\ Ids' = Ids
  /\ \A u \in Ids : /\ tasks'[u].state = IF u = t THEN state ELSE tasks[u].state
                    /\ tasks'[u].phase = IF u = t THEN phase ELSE tasks[u].phase
                    /\ tasks'[u].workload = tasks[u].workload
                    /\ tasks'[u].priority = tasks[u].priority

\* A step on one entry of the table leaves the others alone.
LEMMA TableStep ==
  ASSUME TasksOK, NEW t \in Ids, NEW state \in TaskStates, NEW phase \in TaskPhases,
         tasks' = [tasks EXCEPT ![t].state = state, ![t].phase = phase]
  PROVE  TasksOK' /\ Moved(t, state, phase)
<1>1. Len(tasks) \in Nat /\ Ids = 1 .. Len(tasks) /\ \A u \in Ids : tasks[u] \in Task
  BY DEF TasksOK, Ids
<1>2. [tasks[t] EXCEPT !.state = state, !.phase = phase] \in Task
  BY <1>1 DEF Task
<1>3. tasks' = [tasks EXCEPT ![t] = [tasks[t] EXCEPT !.state = state, !.phase = phase]]
  BY <1>1 DEF TasksOK
<1>4. /\ DOMAIN tasks' = DOMAIN tasks
      /\ \A u \in Ids : tasks'[u] = IF u = t
                                      THEN [tasks[t] EXCEPT !.state = state, !.phase = phase]
                                      ELSE tasks[u]
  BY <1>1, <1>3 DEF TasksOK, Ids
<1>5. tasks' \in Seq(Task)
  BY <1>1, <1>2, <1>3 DEF TasksOK
<1>6. /\ [tasks[t] EXCEPT !.state = state, !.phase = phase].state = state
      /\ [tasks[t] EXCEPT !.state = state, !.phase = phase].phase = phase
      /\ [tasks[t] EXCEPT !.state = state, !.phase = phase].workload = tasks[t].workload
      /\ [tasks[t] EXCEPT !.state = state, !.phase = phase].priority = tasks[t].priority
  BY <1>1 DEF Task
<1> QED BY <1>4, <1>5, <1>6 DEF TasksOK, Moved, Ids

\* Every task in the table was admitted.
LEMMA TableAdmitted ==
  ASSUME TasksOK, NEW t \in Ids
  PROVE  /\ AdmittedWorkload(Workload(t)) /\ Workload(t) \in Workloads
         /\ tasks[t].priority \in Nat
         /\ tasks[t].state \in TaskStates /\ tasks[t].phase \in TaskPhases
         /\ t \in Nat /\ t # None
<1>1. tasks[t] \in Task /\ t \in Nat
  BY DEF TasksOK, Ids
<1> QED BY <1>1, FirmwareAssumption DEF Workload, Task

\* add_task.
LEMMA SubmitStep ==
  ASSUME FirmwareInv, NEW new \in Calls, Submit(new)
  PROVE  FirmwareInv'
<1> DEFINE n == Len(tasks) + 1
<1>1. PICK w \in new : tasks' = Append(tasks, w)
  BY DEF Submit
<1>2. /\ Admitted(w) /\ w \in Task /\ w.state = "READY" /\ w.phase \in {"COPY", "LOAD_SOURCE0"}
      /\ w.phase = "COPY" <=> w.workload.kind = "DMA_COPY"
  <2>1. Admitted(w)
    BY <1>1, FirmwareAssumption
  <2>2. w \in [priority : Nat, state : {"READY"}, phase : TaskPhases, workload : Workloads]
        /\ AdmittedWorkload(w.workload)
    BY <2>1 DEF Admitted
  <2>3. w \in Task
    BY <2>2 DEF Task, TaskStates
  <2> QED BY <2>1, <2>2, <2>3 DEF Admitted
<1> USE DEF FirmwareInv
<1>3. /\ n \in Nat /\ Ids = 1 .. Len(tasks) /\ Ids' = Ids \cup {n} /\ n \notin Ids /\ n # None
      /\ tasks' \in Seq(Task)
      /\ \A u \in Ids : tasks'[u] = tasks[u]
      /\ tasks'[n] = w
  BY <1>1, <1>2, FirmwareAssumption DEF TasksOK, Ids
<1>4. /\ UNCHANGED <<completion_order, active_dma_task, active_accelerator_task, pc, pending,
                     errors, task, broken>>
      /\ UNCHANGED platformVars
      /\ pc = "run_once"
      /\ staged' = Append(staged, {})
  BY DEF Submit
<1>5. /\ DOMAIN staged' = Ids'
      /\ \A u \in Ids : staged'[u] = staged[u]
  BY <1>3, <1>4 DEF StageInv, PhaseInv
<1> HIDE DEF n
<1>6. \A u \in Ids' : u \notin Ids => u = n /\ tasks'[u].state = "READY"
                                      /\ tasks'[u].phase \in {"COPY", "LOAD_SOURCE0"}
                                      /\ u # active_dma_task /\ u # active_accelerator_task
                                      /\ u \notin broken
  BY <1>2, <1>3 DEF OwnerInv, FailInv
<1>7. TasksOK' /\ OwnerInv'
  <2>1. TasksOK'
    BY <1>3 DEF TasksOK
  <2>2. OwnershipConsistent'
    BY <1>3, <1>4, <1>6 DEF OwnerInv, OwnershipConsistent
  <2>3. ASSUME NEW u \in Ids'
        PROVE  /\ tasks'[u].state = "BLOCKED_ON_DMA" => tasks'[u].phase \in DmaPhases
               /\ tasks'[u].state = "BLOCKED_ON_ACCEL" => tasks'[u].phase = "EXECUTE"
               /\ tasks'[u].phase = "COMPLETE" <=> tasks'[u].state = "DONE"
    BY <1>3, <1>6 DEF OwnerInv
  <2>4. /\ active_dma_task' \in Ids' \cup {None}
        /\ active_accelerator_task' \in Ids' \cup {None}
    BY <1>3, <1>4 DEF OwnerInv
  <2> QED BY <2>1, <2>2, <2>3, <2>4 DEF OwnerInv
<1>8. OrderInv'
  <2>1. /\ completion_order \in Seq(Ids')
        /\ \A i \in DOMAIN completion_order : completion_order[i] \in Ids
    <3>1. completion_order \in Seq(Ids)
      BY DEF OrderInv
    <3>2. Ids \subseteq Ids'
      BY <1>3
    <3>3. ASSUME NEW S, NEW T, S \subseteq T, NEW q \in Seq(S)
          PROVE  q \in Seq(T) /\ \A i \in DOMAIN q : q[i] \in S
      BY <3>3
    <3> QED BY <3>1, <3>2, <3>3
  <2>2. \A i \in DOMAIN completion_order : tasks'[completion_order[i]].state = "DONE"
    BY <1>3, <2>1 DEF OrderInv
  <2>3. \A u \in Ids' : tasks'[u].state = "DONE" => u \in Ids /\ tasks[u].state = "DONE"
    BY <1>3, <1>6
  <2> QED BY <1>4, <2>1, <2>2, <2>3 DEF OrderInv
<1>9. DispatchInv'
  BY <1>3, <1>4, <1>6 DEF DispatchInv
<1>10. ServiceInv'
  BY <1>4 DEF ServiceInv, platformVars, irqVars
<1>11. DmaInv'
  BY <1>3, <1>4 DEF DmaInv, DmaNews, OwnerInv, platformVars, irqVars, dmaVars
<1>12. CmdInv'
  BY <1>3, <1>4 DEF CmdInv, CmdNews, CmdBusy, platformVars, irqVars, cmdVars, TaskOf
<1>13. FailInv'
  BY <1>3, <1>4, <1>6 DEF FailInv, CmdBusy, platformVars, dmaVars, cmdVars
<1>14. StageInv'
  <2>1. \A u \in Ids' : Needs(u, tasks[u].phase)' \subseteq staged'[u]
    <3>1. ASSUME NEW u \in Ids PROVE Needs(u, tasks[u].phase)' \subseteq staged'[u]
      BY <1>3, <1>5, <3>1 DEF StageInv, PhaseInv, StagesInOrder, Needs, TwoOperands, Workload
    <3>2. ASSUME NEW u \in Ids', u \notin Ids PROVE Needs(u, tasks[u].phase)' = {}
      BY <1>6, <3>2 DEF Needs
    <3> QED BY <3>1, <3>2
  <2>2. ASSUME NEW u \in Ids'
        PROVE  /\ tasks'[u].phase = "COPY" => Workload(u)'.kind = "DMA_COPY"
               /\ Workload(u)'.kind = "DMA_COPY" => tasks'[u].phase \in {"COPY", "COMPLETE"}
               /\ tasks'[u].phase = "LOAD_SOURCE1" => /\ "LOAD_SOURCE0" \in staged'[u]
                                                      /\ source1_bytes(Workload(u))' # 0
    BY <1>2, <1>3, <1>5, <1>6 DEF StageInv, PhaseInv, Workload
  <2>3. UNCHANGED <<dma_job, cmd_staged, cmd_queue, cmd_retiring>>
    BY <1>4 DEF platformVars, dmaVars, cmdVars
  <2>4. active_dma_task' # None /\ dma_job' = None /\ active_dma_task' \notin broken'
          => tasks'[active_dma_task'].phase \in staged'[active_dma_task']
    BY <1>3, <1>4, <1>5, <2>3 DEF StageInv, PhaseInv, OwnerInv
  <2>5. active_accelerator_task' # None /\ (cmd_retiring' \/ ~CmdBusy')
           /\ active_accelerator_task' \notin broken'
           => "EXECUTE" \in staged'[active_accelerator_task']
    BY <1>3, <1>4, <1>5, <2>3 DEF StageInv, PhaseInv, OwnerInv, CmdBusy
  <2> QED BY <1>5, <2>1, <2>2, <2>4, <2>5 DEF StageInv, PhaseInv, StagesInOrder
<1> QED BY <1>7, <1>8, <1>9, <1>10, <1>11, <1>12, <1>13, <1>14

\* The stages of all tasks when one goes on with a phase whose needs are met.
LEMMA StagesMoved ==
  ASSUME StageInv, NEW t \in Ids, NEW state, NEW phase, Moved(t, state, phase),
         staged' = staged,
         Needs(t, phase) \subseteq staged[t],
         phase = "COPY" => Workload(t).kind = "DMA_COPY",
         Workload(t).kind = "DMA_COPY" => phase \in {"COPY", "COMPLETE"},
         phase = "LOAD_SOURCE1" => /\ "LOAD_SOURCE0" \in staged[t]
                                   /\ source1_bytes(Workload(t)) # 0
  PROVE  PhaseInv'
<1>1. \A u \in Ids : Workload(u)' = Workload(u)
  BY DEF Moved, Workload
<1>4. ASSUME NEW u \in Ids PROVE Needs(u, tasks[u].phase)' \subseteq staged[u]
  <2>1. TwoOperands(u)' <=> TwoOperands(u)
    BY <1>1 DEF TwoOperands
  <2>2. CASE u = t
    <3>1. tasks'[u].phase = phase
      BY <2>2 DEF Moved
    <3>2. Needs(u, tasks[u].phase)' = Needs(t, phase)
      BY <1>1, <2>1, <2>2, <3>1 DEF Needs
    <3> QED BY <2>2, <3>2
  <2>3. CASE u # t
    <3>1. tasks'[u].phase = tasks[u].phase
      BY <2>3 DEF Moved
    <3>2. Needs(u, tasks[u].phase)' = Needs(u, tasks[u].phase)
      BY <1>1, <2>1, <3>1 DEF Needs
    <3> QED BY <3>2 DEF StageInv, PhaseInv, StagesInOrder
  <2> QED BY <2>2, <2>3
<1>5. ASSUME NEW u \in Ids'
      PROVE  /\ tasks'[u].phase = "COPY" => Workload(u)'.kind = "DMA_COPY"
             /\ Workload(u)'.kind = "DMA_COPY" => tasks'[u].phase \in {"COPY", "COMPLETE"}
             /\ tasks'[u].phase = "LOAD_SOURCE1" => /\ "LOAD_SOURCE0" \in staged'[u]
                                                    /\ source1_bytes(Workload(u))' # 0
  <2>1. u \in Ids /\ Workload(u)' = Workload(u)
    BY <1>1 DEF Moved
  <2>2. source1_bytes(Workload(u))' = source1_bytes(Workload(u))
    BY <2>1 DEF source1_bytes, Matrix, checked_product
  <2>3. CASE u = t
    BY <2>1, <2>2, <2>3 DEF Moved
  <2>4. CASE u # t
    BY <2>1, <2>2, <2>4 DEF Moved, StageInv, PhaseInv
  <2> QED BY <2>3, <2>4
<1> QED BY <1>4, <1>5 DEF StageInv, PhaseInv, StagesInOrder, Moved

\* The addresses of a slot are natural numbers.
LEMMA SlotTyped ==
  ASSUME NEW id \in Nat
  PROVE  scratch_source0(id) \in Nat /\ scratch_source1(id) \in Nat /\ scratch_destination(id) \in Nat
<1>1. id * FIRMWARE_TASK_SLOT_BYTES \in Nat
  BY LayoutAssumption, ProductGrows
<1> QED BY <1>1, LayoutAssumption DEF scratch_source0, scratch_source1, scratch_destination, Slot,
                                      FIRMWARE_SOURCE0_OFFSET

\* The transfer of a task's stage: it is never empty.
LEMMA TransferTyped ==
  ASSUME TasksOK, StageInv, NEW t \in Ids, tasks[t].phase \in DmaPhases
  PROVE  LET transfer == Transfer(t - 1, Workload(t), tasks[t].phase)
         IN  transfer[1] \in Nat /\ transfer[2] \in Nat /\ transfer[3] \in Nat \ {0}
<1> DEFINE w == Workload(t)
           transfer == Transfer(t - 1, w, tasks[t].phase)
<1>1. AdmittedWorkload(w) /\ w \in Workloads
  BY TableAdmitted
<1>2. tasks[t].phase # "COPY" => w.kind # "DMA_COPY"
  BY DEF StageInv, PhaseInv, DmaPhases
<1>3. t - 1 \in Nat
  BY DEF TasksOK, Ids
<1>4. /\ scratch_source0(t - 1) \in Nat /\ scratch_source1(t - 1) \in Nat
      /\ scratch_destination(t - 1) \in Nat
  BY <1>3, SlotTyped
<1>5. w.source0 \in Nat /\ w.source1 \in Nat /\ w.destination \in Nat
  BY <1>1 DEF Workloads
<1> HIDE DEF w
<1>6. CASE tasks[t].phase = "COPY"
  <2>1. w.kind = "DMA_COPY"
    BY <1>6 DEF StageInv, PhaseInv, w
  <2>2. w.length \in Nat \ {0}
    BY <1>1, <2>1, LayoutAssumption DEF AdmittedWorkload
  <2> QED BY <1>5, <1>6, <2>2 DEF Transfer, w
<1>7. CASE tasks[t].phase = "LOAD_SOURCE0"
  <2>1. source0_bytes(w) \in Nat \ {0}
    BY <1>1, <1>2, <1>7, OperandsFit
  <2> QED BY <1>4, <1>5, <1>7, <2>1 DEF Transfer, w
<1>8. CASE tasks[t].phase = "LOAD_SOURCE1"
  <2>1. source1_bytes(w) # 0
    BY <1>8 DEF StageInv, PhaseInv, w
  <2>2. source1_bytes(w) \in Nat \ {0}
    BY <1>1, <1>2, <1>8, <2>1, OperandsFit
  <2> QED BY <1>4, <1>5, <1>8, <2>2 DEF Transfer, w
<1>9. CASE tasks[t].phase = "STORE_OUTPUT"
  <2>1. output_bytes(w) \in Nat \ {0}
    BY <1>1, <1>2, <1>9, OperandsFit
  <2> QED BY <1>4, <1>5, <1>9, <2>1 DEF Transfer, w
<1> QED BY <1>6, <1>7, <1>8, <1>9 DEF DmaPhases

\* The command of a task is one of the commands, and tells whose it is.
LEMMA CommandTyped ==
  ASSUME TasksOK, NEW t \in Ids
  PROVE  CommandOf(t) \in Commands /\ TaskOf(CommandOf(t)) = t
<1>1. Workload(t) \in Workloads /\ tasks[t].priority \in Nat /\ t \in Nat /\ t - 1 \in Nat
  BY TableAdmitted DEF TasksOK, Ids
<1>2. /\ scratch_source0(t - 1) \in Nat /\ scratch_source1(t - 1) \in Nat
      /\ scratch_destination(t - 1) \in Nat
  BY <1>1, SlotTyped
<1> QED BY <1>1, <1>2 DEF CommandOf, make_command, Commands, Workloads, TaskOf

\* The stage a task of the table is about to take never makes its driver
\* throw: transfers are not empty, opcodes are valid, and the unit is idle.
LEMMA NeverRefused ==
  ASSUME FirmwareInv, NEW t \in Ids, tasks[t].state = "READY", resource_available(t)
  PROVE  IF tasks[t].phase = "EXECUTE"
           THEN active_accelerator_task = None /\ ~CommandRefused(t)
           ELSE /\ active_dma_task = None /\ tasks[t].phase \in DmaPhases
                /\ ~DmaRefuses(t)
<1> USE DEF FirmwareInv
<1>1. /\ AdmittedWorkload(Workload(t)) /\ tasks[t].phase \in TaskPhases
      /\ tasks[t].phase # "COMPLETE"
  BY TableAdmitted DEF OwnerInv
<1>2. tasks[t].phase # "COPY" => Workload(t).kind # "DMA_COPY"
  BY <1>1 DEF StageInv, PhaseInv
<1>3. CASE tasks[t].phase = "EXECUTE"
  <2>1. active_accelerator_task = None /\ cmd_staged = None
    BY <1>3 DEF resource_available, CmdInv, CmdBusy
  <2>2. Workload(t).opcode # "INVALID"
    BY <1>1, <1>2, <1>3, OperandsFit
  <2> QED BY <1>3, <2>1, <2>2 DEF CommandRefused
<1>4. CASE tasks[t].phase # "EXECUTE"
  <2>1. /\ active_dma_task = None /\ dma_job = None /\ tasks[t].phase \in DmaPhases
    BY <1>1, <1>4 DEF resource_available, DmaInv, DmaPhases, TaskPhases
  <2> DEFINE length == Transfer(t - 1, Workload(t), tasks[t].phase)[3]
  <2>2. length \in Nat \ {0}
    BY <2>1, TransferTyped
  <2> HIDE DEF length
  <2>3. length \notin {0, Overflow}
    BY <2>2 DEF Overflow
  <2> QED BY <1>4, <2>1, <2>3 DEF DmaRefuses, length
<1> QED BY <1>3, <1>4

\* A task that moves without ending keeps the completion order.
LEMMA OrderMoved ==
  ASSUME OrderInv, NEW t \in Ids, NEW state, NEW phase, Moved(t, state, phase),
         completion_order' = completion_order, state # "DONE", tasks[t].state # "DONE"
  PROVE  OrderInv'
<1>1. \A i \in DOMAIN completion_order : completion_order[i] \in Ids
  BY DEF OrderInv
<1>2. \A u \in Ids : tasks'[u].state = "DONE" <=> tasks[u].state = "DONE"
  BY DEF Moved
<1>3. Ids' = Ids
  BY DEF Moved
<1> QED BY <1>1, <1>2, <1>3 DEF OrderInv

\* run_once takes a ready task whose unit is free.
LEMMA BeginDispatchStep ==
  ASSUME FirmwareInv, BeginDispatch
  PROVE  FirmwareInv'
<1>1. PICK t \in select_ready_task :
        LET execute == tasks[t].phase = "EXECUTE"
        IN  IF IF execute THEN CommandRefused(t) ELSE DmaRefuses(t)
              THEN /\ fail_task(t)
                   /\ pc' = "run_once"
                   /\ UNCHANGED task
              ELSE /\ SetTask(t, "RUNNING", tasks[t].phase)
                   /\ pc' = IF execute THEN "cmd_prepare" ELSE "dma_prepare"
                   /\ task' = t
  BY DEF BeginDispatch
<1>2. t \in Ids /\ tasks[t].state = "READY" /\ resource_available(t)
  BY DEF select_ready_task, Candidates
<1>3. IF tasks[t].phase = "EXECUTE"
        THEN active_accelerator_task = None /\ ~CommandRefused(t)
        ELSE /\ active_dma_task = None /\ tasks[t].phase \in DmaPhases
             /\ ~DmaRefuses(t)
  BY <1>2, NeverRefused
<1> DEFINE phase == tasks[t].phase
<1>4. /\ SetTask(t, "RUNNING", phase)
      /\ pc' = IF phase = "EXECUTE" THEN "cmd_prepare" ELSE "dma_prepare"
      /\ task' = t
  BY <1>1, <1>3
<1> USE DEF FirmwareInv
<1>5. TasksOK' /\ Moved(t, "RUNNING", phase)
  <2>1. phase \in TaskPhases
    BY <1>2, TableAdmitted
  <2> QED BY <1>2, <1>4, <2>1, TableStep DEF SetTask, TaskStates
<1>6. /\ pc = "select" /\ irq_clear = {}
      /\ UNCHANGED <<active_dma_task, active_accelerator_task, pending, errors, staged, broken,
                     platformVars, completion_order>>
  BY <1>4 DEF BeginDispatch, MmioReady, SetTask
<1>7. t # active_dma_task /\ t # active_accelerator_task
  BY <1>2 DEF OwnerInv, OwnershipConsistent
<1>8. OrderInv'
  BY <1>2, <1>5, <1>6, OrderMoved
<1>9. OwnerInv'
  BY <1>2, <1>5, <1>6, <1>7 DEF OwnerInv, OwnershipConsistent, Moved
<1>10. DispatchInv'
  <2>1. \A u \in Ids : tasks'[u].state = "RUNNING" <=> u = t
    BY <1>2, <1>5, <1>6 DEF Moved, DispatchInv, DmaDispatch, CmdDispatch
  <2>2. tasks'[t].phase = phase /\ Ids' = Ids
    BY <1>2, <1>5 DEF Moved
  <2> QED BY <1>2, <1>3, <1>4, <1>6, <2>1, <2>2 DEF DispatchInv, DmaDispatch, CmdDispatch
<1>11. ServiceInv'
  BY <1>4, <1>6 DEF ServiceInv, platformVars, irqVars, Servicing, AfterDma
<1>12. DmaInv'
  <2>1. active_dma_task # None => tasks'[active_dma_task].phase = tasks[active_dma_task].phase
    BY <1>5 DEF Moved, OwnerInv
  <2>2. DmaNews' <=> DmaNews
    BY <1>4, <1>6 DEF DmaNews, platformVars, irqVars, AfterDma
  <2> QED BY <1>4, <1>6, <2>1, <2>2 DEF DmaInv, platformVars, dmaVars, AfterDma
<1>13. CmdInv'
  <2>1. CmdNews' <=> CmdNews
    BY <1>4, <1>6 DEF CmdNews, platformVars, irqVars, AfterCmd
  <2> QED BY <1>4, <1>6, <2>1 DEF CmdInv, CmdBusy, platformVars, cmdVars, AfterCmd, TaskOf
<1>14. FailInv'
  BY <1>2, <1>5, <1>6 DEF FailInv, Moved, CmdBusy, platformVars, dmaVars, cmdVars
<1>15. StageInv'
  <2>1. PhaseInv'
    <3>1. /\ Needs(t, phase) \subseteq staged[t]
          /\ phase = "COPY" => Workload(t).kind = "DMA_COPY"
          /\ Workload(t).kind = "DMA_COPY" => phase \in {"COPY", "COMPLETE"}
          /\ phase = "LOAD_SOURCE1" => /\ "LOAD_SOURCE0" \in staged[t]
                                       /\ source1_bytes(Workload(t)) # 0
      BY <1>2 DEF StageInv, PhaseInv, StagesInOrder
    <3> QED BY <1>2, <1>5, <1>6, <3>1, StagesMoved
  <2>2. active_dma_task # None => tasks'[active_dma_task].phase = tasks[active_dma_task].phase
    BY <1>5 DEF Moved, OwnerInv
  <2> QED BY <1>6, <2>1, <2>2 DEF StageInv, CmdBusy, platformVars, dmaVars, cmdVars
<1> QED BY <1>5, <1>8, <1>9, <1>10, <1>11, <1>12, <1>13, <1>14, <1>15

\* The engine is started for the task, with its status clean.
LEMMA DispatchDmaStep ==
  ASSUME FirmwareInv, DispatchDma
  PROVE  FirmwareInv'
<1> DEFINE t == task
           phase == tasks[t].phase
           transfer == Transfer(t - 1, Workload(t), phase)
           job == DmaJob(t, phase)
<1> USE DEF FirmwareInv
<1>1. /\ pc = "dma_start" /\ t \in Ids /\ tasks[t].state = "RUNNING" /\ phase \in DmaPhases
      /\ active_dma_task = None /\ dma_job = None
      /\ ~dma_done_sticky /\ ~dma_error_sticky /\ ~DmaNews
  BY DEF DispatchDma, DispatchInv, DmaDispatch, DmaInv
<1>2. job \in Jobs /\ job # None /\ t # None /\ phase \in TaskPhases
  <2>1. transfer[1] \in Nat /\ transfer[2] \in Nat /\ transfer[3] \in Nat
    BY <1>1, TransferTyped
  <2>2. t \in Nat /\ t # None /\ phase \in TaskPhases
    BY <1>1, TableAdmitted
  <2>3. job = [task |-> t, phase |-> phase, source |-> transfer[1],
               destination |-> transfer[2], length |-> transfer[3]]
    BY DEF DmaJob
  <2> HIDE DEF transfer, phase, t, job
  <2>4. job \in Jobs
    BY <2>1, <2>2, <2>3 DEF Jobs
  <2> QED BY <2>2, <2>4, FirmwareAssumption
<1>3. StartDma(job) /\ SetTask(t, "BLOCKED_ON_DMA", phase)
  BY DEF DispatchDma
<1> HIDE DEF job
<1>4. /\ dma_job' = job /\ dma_irq_enable'
      /\ irq_clear = {}
      /\ UNCHANGED <<irqVars, dma_done_sticky, dma_error_sticky, cmdVars>>
  BY <1>1, <1>3 DEF StartDma, MmioReady
<1>5. /\ active_dma_task' = t /\ pc' = "run_once"
      /\ UNCHANGED <<active_accelerator_task, pending, errors, staged, broken, completion_order>>
  BY <1>3 DEF DispatchDma, SetTask
<1>6. TasksOK' /\ Moved(t, "BLOCKED_ON_DMA", phase)
  BY <1>1, <1>2, <1>3, TableStep DEF SetTask, TaskStates
<1>7. t # active_accelerator_task
  BY <1>1 DEF OwnerInv, OwnershipConsistent
<1>8. job.task = t /\ job.phase = phase
  BY DEF job, DmaJob
<1> HIDE DEF phase, t
<1>9. tasks'[t].phase = phase /\ tasks'[t].state = "BLOCKED_ON_DMA" /\ Ids' = Ids
  BY <1>1, <1>6 DEF Moved, t
<1>10. OrderInv'
  BY <1>1, <1>5, <1>6, OrderMoved
<1>11. OwnerInv'
  <2>1. \A u \in Ids : tasks[u].state # "BLOCKED_ON_DMA"
    BY <1>1, FirmwareAssumption DEF OwnerInv, OwnershipConsistent, TasksOK, Ids
  <2> QED BY <1>1, <1>5, <1>6, <1>7, <2>1 DEF OwnerInv, OwnershipConsistent, Moved, DmaPhases
<1>12. DispatchInv'
  <2>1. \A u \in Ids : tasks'[u].state # "RUNNING"
    BY <1>1, <1>6 DEF Moved, DispatchInv, t
  <2> QED BY <1>5, <1>9, <2>1 DEF DispatchInv, DmaDispatch, CmdDispatch, Idle
<1>13. ServiceInv'
  BY <1>1, <1>4, <1>5 DEF ServiceInv, irqVars, Servicing, AfterDma
<1>14. DmaInv'
  <2>1. ~DmaNews'
    BY <1>1, <1>4, <1>5 DEF DmaNews, irqVars, AfterDma
  <2> QED BY <1>1, <1>2, <1>4, <1>5, <1>8, <1>9, <2>1 DEF DmaInv, AfterDma
<1>15. CmdInv'
  <2>1. CmdNews' <=> CmdNews
    BY <1>1, <1>4, <1>5 DEF CmdNews, irqVars, AfterCmd
  <2> QED BY <1>4, <1>5, <2>1 DEF CmdInv, CmdBusy, cmdVars, AfterCmd, TaskOf
<1>16. FailInv'
  <2>1. t \notin broken
    BY <1>1 DEF FailInv
  <2> QED BY <1>1, <1>2, <1>4, <1>5, <1>6, <2>1 DEF FailInv, Moved, CmdBusy, cmdVars
<1>17. StageInv'
  <2>1. PhaseInv'
    <3>1. /\ Needs(t, phase) \subseteq staged[t]
          /\ phase = "COPY" => Workload(t).kind = "DMA_COPY"
          /\ Workload(t).kind = "DMA_COPY" => phase \in {"COPY", "COMPLETE"}
          /\ phase = "LOAD_SOURCE1" => /\ "LOAD_SOURCE0" \in staged[t]
                                       /\ source1_bytes(Workload(t)) # 0
      BY <1>1 DEF StageInv, PhaseInv, StagesInOrder, phase
    <3> QED BY <1>1, <1>5, <1>6, <3>1, StagesMoved
  <2> QED BY <1>2, <1>4, <1>5, <2>1 DEF StageInv, CmdBusy, cmdVars
<1> QED BY <1>6, <1>10, <1>11, <1>12, <1>13, <1>14, <1>15, <1>16, <1>17

\* The command is submitted for the task, with the status clean.
LEMMA DispatchAcceleratorStep ==
  ASSUME FirmwareInv, DispatchAccelerator
  PROVE  FirmwareInv'
<1> DEFINE t == task
           phase == tasks[t].phase
           command == CommandOf(t)
<1> USE DEF FirmwareInv
<1>1. /\ pc = "cmd_submit" /\ t \in Ids /\ tasks[t].state = "RUNNING" /\ phase = "EXECUTE"
      /\ active_accelerator_task = None /\ ~CmdBusy
      /\ ~cmd_done_sticky /\ ~cmd_error_sticky /\ ~CmdNews
  BY DEF DispatchAccelerator, DispatchInv, CmdDispatch, CmdInv
<1>2. command # None /\ TaskOf(command) = t /\ t # None
  BY <1>1, CommandTyped, TableAdmitted, FirmwareAssumption
<1>3. SubmitCommand(command) /\ SetTask(t, "BLOCKED_ON_ACCEL", phase)
  BY DEF DispatchAccelerator
<1> HIDE DEF command
<1>4. /\ cmd_staged' = command /\ cmd_staged = None
      /\ cmd_queue = <<>> /\ cmd_queue' = <<>>
      /\ irq_clear = {} /\ ~cmd_retiring /\ ~cmd_retiring'
      /\ UNCHANGED <<irqVars, cmd_done_sticky, cmd_error_sticky, dmaVars>>
  BY <1>1, <1>3 DEF SubmitCommand, MmioReady, CmdBusy, CmdInv
<1>5. /\ active_accelerator_task' = t /\ pc' = "run_once"
      /\ UNCHANGED <<active_dma_task, pending, errors, staged, broken, completion_order>>
  BY <1>3 DEF DispatchAccelerator, SetTask
<1>6. TasksOK' /\ Moved(t, "BLOCKED_ON_ACCEL", phase)
  BY <1>1, <1>3, TableStep DEF SetTask, TaskStates, TaskPhases
<1>7. t # active_dma_task
  BY <1>1 DEF OwnerInv, OwnershipConsistent
<1> HIDE DEF phase, t
<1>8. CmdBusy'
  BY <1>2, <1>4 DEF CmdBusy
<1>9. tasks'[t].phase = phase /\ tasks'[t].state = "BLOCKED_ON_ACCEL" /\ Ids' = Ids
  BY <1>1, <1>6 DEF Moved, t
<1>10. OrderInv'
  BY <1>1, <1>5, <1>6, OrderMoved
<1>11. OwnerInv'
  <2>1. \A u \in Ids : tasks[u].state # "BLOCKED_ON_ACCEL"
    BY <1>1, FirmwareAssumption DEF OwnerInv, OwnershipConsistent, TasksOK, Ids
  <2> QED BY <1>1, <1>5, <1>6, <1>7, <2>1 DEF OwnerInv, OwnershipConsistent, Moved
<1>12. DispatchInv'
  <2>1. \A u \in Ids : tasks'[u].state # "RUNNING"
    BY <1>1, <1>6 DEF Moved, DispatchInv, t
  <2> QED BY <1>5, <1>9, <2>1 DEF DispatchInv, DmaDispatch, CmdDispatch, Idle
<1>13. ServiceInv'
  BY <1>1, <1>4, <1>5 DEF ServiceInv, irqVars, Servicing, AfterDma
<1>14. DmaInv'
  <2>1. DmaNews' <=> DmaNews
    BY <1>1, <1>4, <1>5 DEF DmaNews, irqVars, AfterDma
  <2>2. active_dma_task # None => tasks'[active_dma_task].phase = tasks[active_dma_task].phase
    BY <1>6, <1>7 DEF Moved, OwnerInv
  <2> QED BY <1>4, <1>5, <2>1, <2>2 DEF DmaInv, dmaVars, AfterDma
<1>15. CmdInv'
  <2>1. ~CmdNews'
    BY <1>1, <1>4, <1>5 DEF CmdNews, irqVars, AfterCmd
  <2> QED BY <1>1, <1>2, <1>4, <1>5, <1>8, <2>1 DEF CmdInv, AfterCmd, TaskOf
<1>16. FailInv'
  <2>1. t \notin broken
    BY <1>1 DEF FailInv
  <2> QED BY <1>1, <1>4, <1>5, <1>6, <1>8, <2>1 DEF FailInv, Moved, dmaVars
<1>17. StageInv'
  <2>1. PhaseInv'
    <3>1. /\ Needs(t, phase) \subseteq staged[t]
          /\ phase = "COPY" => Workload(t).kind = "DMA_COPY"
          /\ Workload(t).kind = "DMA_COPY" => phase \in {"COPY", "COMPLETE"}
          /\ phase = "LOAD_SOURCE1" => /\ "LOAD_SOURCE0" \in staged[t]
                                       /\ source1_bytes(Workload(t)) # 0
      BY <1>1 DEF StageInv, PhaseInv, StagesInOrder, phase
    <3> QED BY <1>1, <1>5, <1>6, <3>1, StagesMoved
  <2>2. active_dma_task # None => tasks'[active_dma_task].phase = tasks[active_dma_task].phase
    BY <1>6, <1>7 DEF Moved, OwnerInv
  <2> QED BY <1>4, <1>5, <1>8, <2>1, <2>2 DEF StageInv, dmaVars
<1> QED BY <1>6, <1>10, <1>11, <1>12, <1>13, <1>14, <1>15, <1>16, <1>17

\* A task that is done takes its place in the order of completion.
LEMMA OrderFinished ==
  ASSUME TasksOK, OrderInv, NEW t \in Ids, Moved(t, "DONE", "COMPLETE"),
         completion_order' = Append(completion_order, t), tasks[t].state # "DONE"
  PROVE  OrderInv'
<1> DEFINE n == Len(completion_order)
<1>1. /\ completion_order \in Seq(Ids) /\ n \in Nat /\ DOMAIN completion_order = 1 .. n
      /\ \A i \in 1 .. n : completion_order[i] \in Ids /\ completion_order[i] # t
  BY DEF OrderInv
<1>2. /\ completion_order' \in Seq(Ids) /\ DOMAIN completion_order' = 1 .. (n + 1)
      /\ completion_order'[n + 1] = t
      /\ \A i \in 1 .. n : completion_order'[i] = completion_order[i]
  BY <1>1
<1>3. Ids' = Ids /\ \A u \in Ids : tasks'[u].state = "DONE" <=> u = t \/ tasks[u].state = "DONE"
  BY DEF Moved
<1> HIDE DEF n
<1>4. \A i \in 1 .. (n + 1) : i \in 1 .. n \/ i = n + 1
  BY <1>1
<1>5. \A i \in DOMAIN completion_order' : tasks'[completion_order'[i]].state = "DONE"
  BY <1>1, <1>2, <1>3, <1>4 DEF OrderInv
<1>6. ASSUME NEW u \in Ids, tasks'[u].state = "DONE"
      PROVE  \E i \in DOMAIN completion_order' : completion_order'[i] = u
  <2>1. CASE u = t
    BY <1>1, <1>2, <2>1
  <2>2. CASE u # t
    <3>1. PICK i \in 1 .. n : completion_order[i] = u
      BY <1>1, <1>3, <1>6, <2>2 DEF OrderInv
    <3> QED BY <1>1, <1>2, <3>1
  <2> QED BY <2>1, <2>2
<1>7. ASSUME NEW i \in DOMAIN completion_order', NEW j \in DOMAIN completion_order',
             completion_order'[i] = completion_order'[j]
      PROVE  i = j
  BY <1>1, <1>2, <1>4, <1>7 DEF OrderInv
<1> QED BY <1>2, <1>3, <1>5, <1>6, <1>7 DEF OrderInv

\* A stage that ended well for its owner leads to a phase whose needs are met.
NextPhase(t, phase) ==
  /\ Needs(t, phase) \subseteq staged[t]
  /\ phase # "COPY"
  /\ Workload(t).kind = "DMA_COPY" => phase = "COMPLETE"
  /\ phase = "LOAD_SOURCE1" => /\ "LOAD_SOURCE0" \in staged[t]
                               /\ source1_bytes(Workload(t)) # 0

\* What the read of a status decides for the owner of the unit.
Decided(t, state, phase) ==
  \/ /\ state = "ERROR" /\ t \in broken /\ phase = tasks[t].phase
     /\ UNCHANGED completion_order
  \/ /\ state = "DONE" /\ t \notin broken /\ phase = "COMPLETE" /\ NextPhase(t, phase)
     /\ completion_order' = Append(completion_order, t)
  \/ /\ state = "READY" /\ t \notin broken /\ phase \in TaskPhases \ {"COMPLETE"}
     /\ NextPhase(t, phase)
     /\ UNCHANGED completion_order

\* complete_dma moves the owner of the engine on, or ends it.
LEMMA DmaDecides ==
  ASSUME FirmwareInv, active_dma_task # None, dma_job = None, dma_done_sticky,
         complete_dma(active_dma_task)
  PROVE  \E state \in TaskStates, phase \in TaskPhases :
           /\ tasks' = [tasks EXCEPT ![active_dma_task].state = state,
                                     ![active_dma_task].phase = phase]
           /\ Decided(active_dma_task, state, phase)
<1> DEFINE t == active_dma_task
           w == Workload(t)
<1> USE DEF FirmwareInv
<1>1. /\ t \in Ids /\ tasks[t].phase \in DmaPhases
      /\ t \in broken <=> dma_error_sticky
      /\ t \notin broken => tasks[t].phase \in staged[t]
  BY DEF OwnerInv, OwnershipConsistent, FailInv, StageInv, PhaseInv
<1>2. AdmittedWorkload(w) /\ tasks[t].phase \in TaskPhases
  BY <1>1, TableAdmitted
<1>3. /\ tasks[t].phase = "COPY" => w.kind = "DMA_COPY"
      /\ w.kind = "DMA_COPY" => tasks[t].phase = "COPY"
      /\ tasks[t].phase = "LOAD_SOURCE1" => "LOAD_SOURCE0" \in staged[t]
  BY <1>1 DEF StageInv, PhaseInv, DmaPhases
<1>4. w.kind # "DMA_COPY" => (source1_bytes(w) = 0 <=> ~TwoOperands(t))
  BY <1>2, OperandsFit DEF TwoOperands, TwoOperandOpcodes
<1>5. CASE dma_error_sticky
  <2>1. tasks' = [tasks EXCEPT ![t].state = "ERROR", ![t].phase = tasks[t].phase]
        /\ UNCHANGED completion_order
    BY <1>5 DEF complete_dma, fail_task, SetTask
  <2>2. Decided(t, "ERROR", tasks[t].phase)
    BY <1>1, <1>5, <2>1 DEF Decided
  <2> QED BY <1>2, <2>1, <2>2 DEF TaskStates
<1>6. CASE ~dma_error_sticky /\ tasks[t].phase \in {"COPY", "STORE_OUTPUT"}
  <2>1. finish_task(t)
    BY <1>6 DEF complete_dma
  <2>2. Needs(t, "COMPLETE") \subseteq staged[t]
    BY <1>1, <1>3, <1>6 DEF Needs
  <2>3. Decided(t, "DONE", "COMPLETE")
    BY <1>1, <1>6, <2>1, <2>2 DEF Decided, NextPhase, finish_task
  <2> QED BY <2>1, <2>3 DEF finish_task, TaskStates, TaskPhases
<1>7. CASE ~dma_error_sticky /\ tasks[t].phase = "LOAD_SOURCE0"
  <2> DEFINE phase == IF source1_bytes(w) = 0 THEN "EXECUTE" ELSE "LOAD_SOURCE1"
  <2>1. SetTask(t, "READY", phase)
    BY <1>7 DEF complete_dma
  <2>2. Needs(t, phase) \subseteq staged[t]
    BY <1>1, <1>3, <1>4, <1>7 DEF Needs
  <2>3. NextPhase(t, phase)
    <3>1. phase # "COPY" /\ (phase = "LOAD_SOURCE1" => source1_bytes(w) # 0)
      OBVIOUS
    <3>2. "LOAD_SOURCE0" \in staged[t] /\ w.kind # "DMA_COPY"
      BY <1>1, <1>3, <1>7
    <3> HIDE DEF phase
    <3> QED BY <2>2, <3>1, <3>2 DEF NextPhase
  <2>4. phase \in TaskPhases \ {"COMPLETE"}
    BY DEF TaskPhases
  <2> HIDE DEF phase
  <2>5. Decided(t, "READY", phase)
    BY <1>1, <1>7, <2>1, <2>3, <2>4 DEF Decided, SetTask
  <2> QED BY <2>1, <2>4, <2>5 DEF SetTask, TaskStates
<1>8. CASE ~dma_error_sticky /\ tasks[t].phase = "LOAD_SOURCE1"
  <2>1. SetTask(t, "READY", "EXECUTE")
    BY <1>8 DEF complete_dma
  <2>2. Needs(t, "EXECUTE") \subseteq staged[t]
    BY <1>1, <1>3, <1>8 DEF Needs
  <2>3. Decided(t, "READY", "EXECUTE")
    BY <1>1, <1>3, <1>8, <2>1, <2>2 DEF Decided, NextPhase, SetTask, TaskPhases
  <2> QED BY <2>1, <2>3 DEF SetTask, TaskStates, TaskPhases
<1> QED BY <1>1, <1>5, <1>6, <1>7, <1>8 DEF DmaPhases

\* complete_accelerator moves the owner of the path on, or ends it.
LEMMA AcceleratorDecides ==
  ASSUME FirmwareInv, active_accelerator_task # None, ~CmdBusy, cmd_done_sticky,
         complete_accelerator(active_accelerator_task)
  PROVE  \E state \in TaskStates, phase \in TaskPhases :
           /\ tasks' = [tasks EXCEPT ![active_accelerator_task].state = state,
                                     ![active_accelerator_task].phase = phase]
           /\ Decided(active_accelerator_task, state, phase)
<1> DEFINE t == active_accelerator_task
<1> USE DEF FirmwareInv
<1>1. /\ t \in Ids /\ tasks[t].phase = "EXECUTE"
      /\ t \in broken <=> cmd_error_sticky
      /\ t \notin broken => "EXECUTE" \in staged[t]
      /\ Workload(t).kind # "DMA_COPY"
  BY DEF OwnerInv, OwnershipConsistent, FailInv, StageInv, PhaseInv
<1>2. CASE cmd_error_sticky
  <2>1. tasks' = [tasks EXCEPT ![t].state = "ERROR", ![t].phase = tasks[t].phase]
        /\ UNCHANGED completion_order
    BY <1>2 DEF complete_accelerator, fail_task, SetTask
  <2>2. Decided(t, "ERROR", tasks[t].phase)
    BY <1>1, <1>2, <2>1 DEF Decided
  <2> QED BY <1>1, <2>1, <2>2 DEF TaskStates, TaskPhases
<1>3. CASE ~cmd_error_sticky
  <2>1. SetTask(t, "READY", "STORE_OUTPUT")
    BY <1>3 DEF complete_accelerator
  <2>2. Needs(t, "STORE_OUTPUT") \subseteq staged[t]
    BY <1>1, <1>3 DEF Needs
  <2>3. Decided(t, "READY", "STORE_OUTPUT")
    BY <1>1, <1>3, <2>1, <2>2 DEF Decided, NextPhase, SetTask, TaskPhases
  <2> QED BY <2>1, <2>3 DEF SetTask, TaskStates, TaskPhases
<1> QED BY <1>2, <1>3

\* What a decision does to the order of completion and to the stages.
LEMMA DecisionKept ==
  ASSUME FirmwareInv, NEW t \in Ids, NEW state, NEW phase, Moved(t, state, phase),
         Decided(t, state, phase), tasks[t].state \notin {"DONE", "ERROR"},
         UNCHANGED <<staged, broken>>
  PROVE  /\ OrderInv'
         /\ PhaseInv'
         /\ \A u \in Ids' :
              /\ tasks'[u].state = "ERROR" => u \in broken
              /\ tasks'[u].state \in {"READY", "RUNNING", "DONE"} => u \notin broken
<1> USE DEF FirmwareInv
<1>1. OrderInv'
  <2>1. CASE state = "DONE"
    BY <2>1, OrderFinished DEF Decided
  <2>2. CASE state # "DONE"
    BY <2>2, OrderMoved DEF Decided
  <2> QED BY <2>1, <2>2
<1>2. /\ Needs(t, phase) \subseteq staged[t]
      /\ phase = "COPY" => Workload(t).kind = "DMA_COPY"
      /\ Workload(t).kind = "DMA_COPY" => phase \in {"COPY", "COMPLETE"}
      /\ phase = "LOAD_SOURCE1" => /\ "LOAD_SOURCE0" \in staged[t]
                                   /\ source1_bytes(Workload(t)) # 0
  BY DEF Decided, NextPhase, StageInv, PhaseInv, StagesInOrder
<1>3. PhaseInv'
  BY <1>2, StagesMoved
<1>4. \A u \in Ids' : /\ tasks'[u].state = "ERROR" => u \in broken
                      /\ tasks'[u].state \in {"READY", "RUNNING", "DONE"} => u \notin broken
  BY DEF Moved, Decided, FailInv
<1> QED BY <1>1, <1>3, <1>4

\* service_interrupts reads the status of the DMA engine: a completion it has
\* seen pending belongs to the task that owns the engine.
LEMMA ReadDmaStatusStep ==
  ASSUME FirmwareInv, ReadDmaStatus
  PROVE  FirmwareInv'
<1> USE DEF FirmwareInv
<1>1. /\ pc = "dma_status" /\ irq_clear = {}
      /\ UNCHANGED <<pending, errors, task, staged, broken, platformVars>>
  BY DEF ReadDmaStatus, ServiceInv, Idle
<1>2. UNCHANGED <<irqVars, dmaVars, cmdVars>>
  BY <1>1 DEF platformVars
<1>3. CASE "DMA_DONE" \notin pending
  <2>1. UNCHANGED tableVars /\ UNCHANGED jobVars /\ pc' = "cmd_status"
    BY <1>1, <1>2, <1>3 DEF ReadDmaStatus, tableVars, jobVars, dmaVars
  <2>2. TasksOK' /\ OwnerInv' /\ OrderInv' /\ FailInv' /\ StageInv'
    BY <2>1, TableKept, JobsKept
  <2>3. DispatchInv'
    BY <1>1, <2>1 DEF tableVars, DispatchInv, Ids, DmaDispatch, CmdDispatch, Servicing, AfterDma
  <2>4. ServiceInv'
    BY <1>1, <1>2, <2>1 DEF ServiceInv, irqVars, Idle, Servicing, AfterDma
  <2>5. (DmaNews' <=> DmaNews) /\ (CmdNews' <=> CmdNews)
    BY <1>1, <1>2, <1>3, <2>1 DEF DmaNews, CmdNews, irqVars, AfterDma, AfterCmd
  <2>6. DmaInv'
    BY <1>1, <1>2, <1>3, <2>1, <2>5 DEF DmaInv, tableVars, dmaVars, AfterDma
  <2>7. CmdInv'
    BY <1>1, <1>2, <1>3, <2>1, <2>5 DEF CmdInv, CmdBusy, TaskOf, tableVars, cmdVars, AfterCmd
  <2> QED BY <2>2, <2>3, <2>4, <2>6, <2>7
<1>4. CASE "DMA_DONE" \in pending
  <2> DEFINE t == active_dma_task
  <2>1. DmaNews
    BY <1>1, <1>4 DEF DmaNews, ServiceInv, AfterDma
  <2>2. t # None /\ dma_job = None /\ dma_done_sticky
    BY <2>1 DEF DmaInv
  <2>3. complete_dma(t) /\ pc' = "dma_clear"
    BY <1>4, <2>2 DEF ReadDmaStatus
  <2>4. PICK state \in TaskStates, phase \in TaskPhases :
          /\ tasks' = [tasks EXCEPT ![t].state = state, ![t].phase = phase]
          /\ Decided(t, state, phase)
    BY <2>2, <2>3, DmaDecides
  <2>5. active_dma_task' = None /\ active_accelerator_task' = active_accelerator_task
    BY <2>3 DEF complete_dma
  <2>6. t \in Ids /\ tasks[t].state = "BLOCKED_ON_DMA" /\ t # active_accelerator_task
        /\ tasks[t].phase \in DmaPhases
    BY <2>2 DEF OwnerInv, OwnershipConsistent
  <2>7. TasksOK' /\ Moved(t, state, phase)
    BY <2>4, <2>6, TableStep
  <2>8. /\ state \in {"READY", "DONE", "ERROR"}
        /\ phase = "COMPLETE" <=> state = "DONE"
    BY <2>4, <2>6 DEF Decided, DmaPhases
  <2>9. /\ OrderInv'
        /\ PhaseInv'
        /\ \A u \in Ids' :
             /\ tasks'[u].state = "ERROR" => u \in broken
             /\ tasks'[u].state \in {"READY", "RUNNING", "DONE"} => u \notin broken
    BY <1>1, <2>4, <2>6, <2>7, DecisionKept
  <2>10. Ids' = Ids
    BY <2>7 DEF Moved
  <2>11. \A u \in Ids : u # None
    BY TableAdmitted
  <2>12. OwnerInv'
    BY <2>5, <2>6, <2>7, <2>8, <2>11 DEF OwnerInv, OwnershipConsistent, Moved
  <2>13. DispatchInv'
    BY <1>1, <2>3, <2>7, <2>8 DEF DispatchInv, Moved, DmaDispatch, CmdDispatch, Servicing, AfterDma
  <2>14. ServiceInv'
    BY <1>1, <1>2, <1>4, <2>3 DEF ServiceInv, irqVars, Idle, Servicing, AfterDma
  <2>15. ~DmaNews' /\ (CmdNews' <=> CmdNews)
    BY <1>1, <1>2, <1>4, <2>3 DEF DmaNews, CmdNews, irqVars, AfterDma, AfterCmd
  <2>16. DmaInv'
    BY <1>2, <2>2, <2>3, <2>5, <2>15 DEF DmaInv, dmaVars
  <2>17. CmdInv'
    BY <1>1, <1>2, <2>3, <2>5, <2>15 DEF CmdInv, CmdBusy, TaskOf, cmdVars, AfterCmd
  <2>18. FailInv'
    BY <1>1, <1>2, <2>5, <2>9, <2>10 DEF FailInv, CmdBusy, cmdVars
  <2>19. StageInv'
    BY <1>1, <1>2, <2>5, <2>9 DEF StageInv, CmdBusy, cmdVars
  <2> QED BY <2>7, <2>9, <2>12, <2>13, <2>14, <2>16, <2>17, <2>18, <2>19
<1> QED BY <1>3, <1>4

\* The same for the accelerators.
LEMMA ReadCmdStatusStep ==
  ASSUME FirmwareInv, ReadCmdStatus
  PROVE  FirmwareInv'
<1> USE DEF FirmwareInv
<1>1. /\ pc = "cmd_status" /\ irq_clear = {}
      /\ UNCHANGED <<pending, errors, task, staged, broken, platformVars>>
  BY DEF ReadCmdStatus, ServiceInv, Idle
<1>2. UNCHANGED <<irqVars, dmaVars, cmdVars>>
  BY <1>1 DEF platformVars
<1>3. CASE "CMD_DONE" \notin pending
  <2>1. UNCHANGED tableVars /\ UNCHANGED jobVars /\ pc' = "read_errors"
    BY <1>1, <1>2, <1>3 DEF ReadCmdStatus, tableVars, jobVars, dmaVars
  <2>2. TasksOK' /\ OwnerInv' /\ OrderInv' /\ FailInv' /\ StageInv'
    BY <2>1, TableKept, JobsKept
  <2>3. DispatchInv'
    BY <1>1, <2>1 DEF tableVars, DispatchInv, Ids, DmaDispatch, CmdDispatch, Servicing, AfterDma
  <2>4. ServiceInv'
    BY <1>1, <1>2, <2>1 DEF ServiceInv, irqVars, Idle, Servicing, AfterDma
  <2>5. (DmaNews' <=> DmaNews) /\ (CmdNews' <=> CmdNews)
    BY <1>1, <1>2, <1>3, <2>1 DEF DmaNews, CmdNews, irqVars, AfterDma, AfterCmd
  <2>6. DmaInv'
    BY <1>1, <1>2, <1>3, <2>1, <2>5 DEF DmaInv, tableVars, dmaVars, AfterDma
  <2>7. CmdInv'
    BY <1>1, <1>2, <1>3, <2>1, <2>5 DEF CmdInv, CmdBusy, TaskOf, tableVars, cmdVars, AfterCmd
  <2> QED BY <2>2, <2>3, <2>4, <2>6, <2>7
<1>4. CASE "CMD_DONE" \in pending
  <2> DEFINE t == active_accelerator_task
  <2>1. CmdNews
    BY <1>1, <1>4 DEF CmdNews, ServiceInv, AfterCmd
  <2>2. t # None /\ ~CmdBusy /\ cmd_done_sticky
    BY <2>1 DEF CmdInv
  <2>3. complete_accelerator(t) /\ pc' = "cmd_clear"
    BY <1>4, <2>2 DEF ReadCmdStatus
  <2>4. PICK state \in TaskStates, phase \in TaskPhases :
          /\ tasks' = [tasks EXCEPT ![t].state = state, ![t].phase = phase]
          /\ Decided(t, state, phase)
    BY <2>2, <2>3, AcceleratorDecides
  <2>5. active_accelerator_task' = None /\ active_dma_task' = active_dma_task
    BY <2>3 DEF complete_accelerator
  <2>6. t \in Ids /\ tasks[t].state = "BLOCKED_ON_ACCEL" /\ t # active_dma_task
        /\ tasks[t].phase = "EXECUTE"
    BY <2>2 DEF OwnerInv, OwnershipConsistent
  <2>7. TasksOK' /\ Moved(t, state, phase)
    BY <2>4, <2>6, TableStep
  <2>8. /\ state \in {"READY", "DONE", "ERROR"}
        /\ phase = "COMPLETE" <=> state = "DONE"
    BY <2>4, <2>6 DEF Decided
  <2>9. /\ OrderInv'
        /\ PhaseInv'
        /\ \A u \in Ids' :
             /\ tasks'[u].state = "ERROR" => u \in broken
             /\ tasks'[u].state \in {"READY", "RUNNING", "DONE"} => u \notin broken
    BY <1>1, <2>4, <2>6, <2>7, DecisionKept
  <2>10. Ids' = Ids
    BY <2>7 DEF Moved
  <2>11. \A u \in Ids : u # None
    BY TableAdmitted
  <2>12. OwnerInv'
    BY <2>5, <2>6, <2>7, <2>8, <2>11 DEF OwnerInv, OwnershipConsistent, Moved
  <2>13. DispatchInv'
    BY <1>1, <2>3, <2>7, <2>8 DEF DispatchInv, Moved, DmaDispatch, CmdDispatch, Servicing, AfterDma
  <2>14. ServiceInv'
    BY <1>1, <1>2, <1>4, <2>3 DEF ServiceInv, irqVars, Idle, Servicing, AfterDma
  <2>15. ~CmdNews' /\ (DmaNews' <=> DmaNews)
    BY <1>1, <1>2, <1>4, <2>3 DEF DmaNews, CmdNews, irqVars, AfterDma, AfterCmd
  <2>16. CmdInv'
    BY <1>2, <2>2, <2>3, <2>5, <2>15 DEF CmdInv, CmdBusy, cmdVars
  <2>17. DmaInv'
    <3>1. active_dma_task # None => tasks'[active_dma_task].phase = tasks[active_dma_task].phase
      BY <2>6, <2>7 DEF Moved, OwnerInv
    <3> QED BY <1>1, <1>2, <2>3, <2>5, <2>15, <3>1 DEF DmaInv, dmaVars, AfterDma
  <2>18. FailInv'
    BY <1>1, <1>2, <2>5, <2>9, <2>10 DEF FailInv, dmaVars
  <2>19. StageInv'
    <3>1. active_dma_task # None => tasks'[active_dma_task].phase = tasks[active_dma_task].phase
      BY <2>6, <2>7 DEF Moved, OwnerInv
    <3> QED BY <1>1, <1>2, <2>5, <2>9, <3>1 DEF StageInv, dmaVars
  <2> QED BY <2>7, <2>9, <2>12, <2>13, <2>14, <2>16, <2>17, <2>18, <2>19
<1> QED BY <1>3, <1>4

----------------------------------------------------------------------------
(* The invariant holds, and the properties follow. *)

\* The invariant holds when the firmware has booted.
LEMMA FirmwareInit ==
  SchedulerInit => FirmwareInv
<1> SUFFICES ASSUME SchedulerInit PROVE FirmwareInv
  OBVIOUS
<1>1. tasks = <<>> /\ completion_order = <<>> /\ staged = <<>> /\ Ids = {}
  BY DEF SchedulerInit, Ids
<1>2. TasksOK /\ OrderInv
  BY <1>1 DEF TasksOK, OrderInv
<1>3. DispatchInv /\ OwnerInv /\ ServiceInv
  BY <1>1 DEF SchedulerInit, PlatformInit, DispatchInv, OwnerInv, OwnershipConsistent, ServiceInv,
              DmaDispatch, CmdDispatch, Servicing, AfterDma
<1>4. DmaInv /\ CmdInv
  BY DEF SchedulerInit, PlatformInit, DmaInv, CmdInv, DmaNews, CmdNews, CmdBusy, AfterDma, AfterCmd
<1>5. FailInv /\ StageInv
  BY <1>1 DEF SchedulerInit, FailInv, StageInv, PhaseInv, StagesInOrder
<1> QED BY <1>2, <1>3, <1>4, <1>5 DEF FirmwareInv

\* A stuttering step keeps it.
LEMMA FirmwareStutters ==
  ASSUME FirmwareInv, UNCHANGED schedulerVars
  PROVE  FirmwareInv'
<1>1. /\ UNCHANGED tableVars /\ UNCHANGED jobVars
      /\ UNCHANGED <<pc, pending, irqVars, dmaVars, cmdVars>>
  BY DEF schedulerVars, firmwareVars, platformVars, tableVars, jobVars, dmaVars, cmdVars, irqVars
<1>2. TasksOK' /\ OwnerInv' /\ OrderInv' /\ FailInv' /\ StageInv'
  BY <1>1, TableKept, JobsKept DEF FirmwareInv
<1>3. DispatchInv' /\ ServiceInv'
  BY <1>1 DEF FirmwareInv, DispatchInv, ServiceInv, tableVars, irqVars, Ids
<1>4. DmaInv'
  BY <1>1 DEF FirmwareInv, DmaInv, DmaNews, tableVars, irqVars, dmaVars
<1>5. CmdInv'
  BY <1>1 DEF FirmwareInv, CmdInv, CmdNews, CmdBusy, TaskOf, tableVars, irqVars, cmdVars
<1> QED BY <1>2, <1>3, <1>4, <1>5 DEF FirmwareInv

\* It holds in every state.
LEMMA FirmwareInductive ==
  Spec => []FirmwareInv
<1>1. SchedulerInit => FirmwareInv
  BY FirmwareInit
<1>2. FirmwareInv /\ [SchedulerNext]_schedulerVars => FirmwareInv'
  <2> SUFFICES ASSUME FirmwareInv, [SchedulerNext]_schedulerVars PROVE FirmwareInv'
    OBVIOUS
  <2>1. CASE \E new \in Calls : Submit(new)
    BY <2>1, SubmitStep
  <2>2. CASE FirmwareStep
    BY <2>2, QuietSteps, ReadDmaStatusStep, ReadCmdStatusStep, ClearSteps, BeginDispatchStep,
       DispatchDmaStep, DispatchAcceleratorStep DEF FirmwareStep
  <2>3. CASE DmaEvent
    BY <2>3, DmaEnds
  <2>4. CASE AcceleratorEvent
    BY <2>4, AcceleratorEnds
  <2>5. CASE OtherEvent
    BY <2>5, OtherEdges
  <2>6. CASE UNCHANGED schedulerVars
    BY <2>6, FirmwareStutters
  <2> QED BY <2>1, <2>2, <2>3, <2>4, <2>5, <2>6 DEF SchedulerNext
<1> QED BY <1>1, <1>2, PTL DEF Spec

\* Each unit works for at most one task, the one the scheduler blocks on it.
THEOREM OwnersAreBlocked == Spec => []OwnershipConsistent
<1>1. FirmwareInv => OwnershipConsistent
  BY DEF FirmwareInv, OwnerInv
<1> QED BY <1>1, FirmwareInductive, PTL

\* No wake-up is lost between reading, clearing and acknowledging an interrupt.
THEOREM WakeupsAreKept == Spec => []NoLostWakeup
<1>1. FirmwareInv => NoLostWakeup
  BY DEF FirmwareInv, DmaInv, CmdInv, CmdBusy, DmaNews, CmdNews, NoLostWakeup
<1> QED BY <1>1, FirmwareInductive, PTL

\* A stage starts only when the data it reads is in place, and a task is done
\* only when its result has reached its destination.
THEOREM StagesAreOrdered == Spec => []StagesInOrder
<1>1. FirmwareInv => StagesInOrder
  BY DEF FirmwareInv, StageInv, PhaseInv
<1> QED BY <1>1, FirmwareInductive, PTL

\* A task fails only by a job of its own, none is done that had one fail, and
\* completion_order lists the tasks that are done, each once.
THEOREM FailuresAreOwn == Spec => []FailureIsOwn
<1>1. ASSUME FirmwareInv PROVE FailureIsOwn
  <2> USE <1>1 DEF FirmwareInv
  <2> SUFFICES ASSUME NEW t \in Ids
               PROVE  /\ tasks[t].state = "ERROR" => t \in broken
                      /\ tasks[t].state = "DONE" => t \notin broken
                      /\ Cardinality({i \in DOMAIN completion_order : completion_order[i] = t})
                           = IF tasks[t].state = "DONE" THEN 1 ELSE 0
    BY DEF FailureIsOwn
  <2>1. (tasks[t].state = "ERROR" => t \in broken) /\ (tasks[t].state = "DONE" => t \notin broken)
    BY DEF FailInv
  <2> DEFINE places == {i \in DOMAIN completion_order : completion_order[i] = t}
  <2>2. CASE tasks[t].state = "DONE"
    <3>1. PICK i \in DOMAIN completion_order : completion_order[i] = t
      BY <2>2 DEF OrderInv
    <3>2. places = {i}
      BY <3>1 DEF OrderInv
    <3> HIDE DEF places
    <3>3. Cardinality(places) = 1
      BY <3>2, FS_Singleton
    <3> QED BY <2>1, <2>2, <3>3 DEF places
  <2>3. CASE tasks[t].state # "DONE"
    <3>1. places = {}
      BY <2>3 DEF OrderInv
    <3> HIDE DEF places
    <3>2. Cardinality(places) = 0
      BY <3>1, FS_EmptySet
    <3> QED BY <2>1, <2>3, <3>2 DEF places
  <2> QED BY <2>2, <2>3
<1> QED BY <1>1, FirmwareInductive, PTL

----------------------------------------------------------------------------
(* Scratchpad ranges. *)

\* What the units work at is what the table says of their tasks, the table is
\* no longer than the scratchpad has slots, and no buffer of an application
\* lies in one.
ScratchInv ==
  /\ Len(tasks) <= FIRMWARE_TASK_SLOT_COUNT
  /\ \A t \in Ids : \A buffer \in Buffers(Workload(t)) : External(buffer)
  /\ dma_job # None => dma_job.task \in Ids /\ dma_job = DmaJob(dma_job.task, dma_job.phase)
  /\ \A c \in Running : TaskOf(c) \in Ids /\ c = CommandOf(TaskOf(c))

\* No step changes what a task of the table is to do.
WorkloadsKept ==
  /\ Ids' = Ids
  /\ \A u \in Ids : /\ tasks'[u].workload = tasks[u].workload
                    /\ tasks'[u].priority = tasks[u].priority

\* Setting state and phase of a task changes no workload.
LEMMA SetKeeps ==
  ASSUME TasksOK, NEW t, NEW state, NEW phase,
         tasks' = [tasks EXCEPT ![t].state = state, ![t].phase = phase]
  PROVE  WorkloadsKept /\ Len(tasks') = Len(tasks)
<1>1. Len(tasks) \in Nat /\ Ids = 1 .. Len(tasks) /\ \A u \in Ids : tasks[u] \in Task
  BY DEF TasksOK, Ids
<1>2. tasks' = [tasks EXCEPT ![t] = [tasks[t] EXCEPT !.state = state, !.phase = phase]]
  BY DEF TasksOK
<1>3. /\ DOMAIN tasks' = DOMAIN tasks
      /\ \A u \in Ids : tasks'[u] = IF u = t
                                      THEN [tasks[t] EXCEPT !.state = state, !.phase = phase]
                                      ELSE tasks[u]
  BY <1>1, <1>2 DEF TasksOK, Ids
<1>4. t \in Ids =>
        /\ [tasks[t] EXCEPT !.state = state, !.phase = phase].workload = tasks[t].workload
        /\ [tasks[t] EXCEPT !.state = state, !.phase = phase].priority = tasks[t].priority
  BY <1>1 DEF Task
<1>5. Len(tasks') = Len(tasks)
  BY <1>2 DEF TasksOK
<1> QED BY <1>3, <1>4, <1>5 DEF WorkloadsKept, Ids

\* Only a submission adds to the table; no step changes a workload in it.
LEMMA StepsKeepWorkloads ==
  ASSUME TasksOK,
         FirmwareStep \/ DmaEvent \/ AcceleratorEvent \/ OtherEvent \/ UNCHANGED schedulerVars
  PROVE  WorkloadsKept /\ Len(tasks') = Len(tasks)
<1>1. CASE tasks' = tasks
  BY <1>1 DEF WorkloadsKept, Ids
<1>2. \A t, state, phase : SetTask(t, state, phase) => WorkloadsKept /\ Len(tasks') = Len(tasks)
  BY SetKeeps DEF SetTask
<1>3. \A t : fail_task(t) \/ finish_task(t) => WorkloadsKept /\ Len(tasks') = Len(tasks)
  BY SetKeeps, <1>2 DEF fail_task, finish_task
<1>4. CASE ReadDmaStatus
  <2>1. CASE tasks' # tasks
    <3>1. PICK t : complete_dma(t)
      BY <1>4, <2>1 DEF ReadDmaStatus
    <3>2. \/ fail_task(t) \/ finish_task(t)
          \/ SetTask(t, "READY", "EXECUTE")
          \/ SetTask(t, "READY", IF source1_bytes(Workload(t)) = 0
                                   THEN "EXECUTE" ELSE "LOAD_SOURCE1")
      BY <3>1 DEF complete_dma
    <3> QED BY <1>2, <1>3, <3>2
  <2> QED BY <1>1, <2>1
<1>5. CASE ReadCmdStatus
  BY <1>1, <1>2, <1>3, <1>5 DEF ReadCmdStatus, complete_accelerator
<1>6. CASE BeginDispatch
  BY <1>2, <1>3, <1>6 DEF BeginDispatch
<1>7. CASE DispatchDma \/ DispatchAccelerator
  BY <1>2, <1>7 DEF DispatchDma, DispatchAccelerator
<1>8. CASE \/ \E periodic \in BOOLEAN : Boot(periodic)
           \/ RunOnce \/ ReadPending \/ ServiceDmaClear \/ ServiceCmdClear \/ ReadErrors
           \/ ClearErrors \/ Acknowledge \/ Stall \/ PrepareDma \/ PrepareCommand
  BY <1>1, <1>8 DEF Boot, RunOnce, ReadPending, ServiceDmaClear, ServiceCmdClear, ReadErrors,
                    ClearErrors, Acknowledge, Stall, PrepareDma, PrepareCommand, Goto
<1>9. CASE DmaEvent \/ AcceleratorEvent \/ OtherEvent \/ UNCHANGED schedulerVars
  BY <1>1, <1>9 DEF DmaEvent, AcceleratorEvent, OtherEvent, schedulerVars, firmwareVars
<1> QED BY <1>4, <1>5, <1>6, <1>7, <1>8, <1>9 DEF FirmwareStep

\* The jobs of the units after a step: those before it, or what the scheduler
\* dispatches.
LEMMA StepsKeepJobs ==
  ASSUME FirmwareInv, [SchedulerNext]_schedulerVars
  PROVE  /\ \/ dma_job' = dma_job \/ dma_job' = None
            \/ task \in Ids /\ dma_job' = DmaJob(task, tasks[task].phase)
         /\ \/ Running' \subseteq Running
            \/ task \in Ids /\ Running' \subseteq Running \cup {CommandOf(task)}
<1>1. CASE UNCHANGED <<dma_job, cmd_staged, cmd_queue>>
  BY <1>1 DEF Running
<1>2. CASE DispatchDma
  <2>1. task \in Ids
    BY <1>2 DEF FirmwareInv, DispatchInv, DispatchDma, DmaDispatch
  <2>2. \/ dma_job' = DmaJob(task, tasks[task].phase) /\ UNCHANGED <<cmd_staged, cmd_queue>>
        \/ UNCHANGED <<dma_job, cmd_staged, cmd_queue>>
    BY <1>2 DEF DispatchDma, StartDma, cmdVars, dmaVars, platformVars
  <2> QED BY <2>1, <2>2 DEF Running
<1>3. CASE DispatchAccelerator
  <2>1. task \in Ids
    BY <1>3 DEF FirmwareInv, DispatchInv, DispatchAccelerator, CmdDispatch
  <2>2. \/ cmd_staged' = CommandOf(task) /\ UNCHANGED <<dma_job, cmd_queue>>
        \/ UNCHANGED <<dma_job, cmd_staged, cmd_queue>>
    BY <1>3 DEF DispatchAccelerator, SubmitCommand, cmdVars, dmaVars, platformVars
  <2> QED BY <2>1, <2>2 DEF Running
<1>4. CASE CommandQueued
  <2>1. cmd_queue = <<>> /\ cmd_staged # None
    BY <1>4 DEF CommandQueued, FirmwareInv, CmdInv, CmdBusy
  <2>2. cmd_queue' = <<cmd_staged>> /\ cmd_staged' = None
    <3>1. Append(<<>>, cmd_staged) = <<cmd_staged>>
      OBVIOUS
    <3> QED BY <1>4, <2>1, <3>1 DEF CommandQueued
  <2> QED BY <1>4, <2>1, <2>2 DEF CommandQueued, Running, dmaVars
<1>5. CASE CommandCompleted
  <2>1. cmd_queue = <<cmd_queue[1]>>
    BY <1>5 DEF CommandCompleted, FirmwareInv, CmdInv, CmdBusy
  <2>2. cmd_queue' = <<>> /\ cmd_staged' = cmd_staged
    <3>1. Tail(<<cmd_queue[1]>>) = <<>>
      OBVIOUS
    <3> QED BY <1>5, <2>1, <3>1 DEF CommandCompleted
  <2> QED BY <1>5, <2>2 DEF CommandCompleted, Running, dmaVars
<1>6. CASE DmaEvent
  BY <1>6 DEF DmaEvent, DmaFinishes, cmdVars, Running
<1>7. CASE AcceleratorEvent \/ TimerTick \/ AcknowledgeTakesEffect
  BY <1>1, <1>7 DEF AcceleratorEvent, AcceleratorDone, TimerTick, AcknowledgeTakesEffect, dmaVars,
                    cmdVars
<1>8. CASE \/ \E new \in Calls : Submit(new)
           \/ \E periodic \in BOOLEAN : Boot(periodic)
           \/ RunOnce \/ ReadPending \/ ReadDmaStatus \/ ServiceDmaClear \/ ReadCmdStatus
           \/ ServiceCmdClear \/ ReadErrors \/ ClearErrors \/ Acknowledge
           \/ Stall \/ BeginDispatch \/ PrepareDma \/ PrepareCommand
           \/ UNCHANGED schedulerVars
  <2>1. UNCHANGED <<dma_job, cmd_staged, cmd_queue>>
    BY <1>8 DEF Submit, Boot, RunOnce, ReadPending, ReadDmaStatus, ServiceDmaClear, ReadCmdStatus,
                ServiceCmdClear, ReadErrors, ClearErrors, Acknowledge, Stall, BeginDispatch,
                PrepareDma, PrepareCommand, Goto, WriteBootRegisters, ClearErrorStatus,
                WriteIrqStatus, ClearDmaStatus, ClearCmdStatus, dmaVars, cmdVars, platformVars,
                schedulerVars
  <2> QED BY <1>1, <2>1
<1> QED BY <1>2, <1>3, <1>4, <1>5, <1>6, <1>7, <1>8
        DEF SchedulerNext, FirmwareStep, OtherEvent

\* Jobs are those of table entries in every state.
LEMMA ScratchInductive ==
  Spec => []ScratchInv
<1>1. SchedulerInit => ScratchInv
  <2> SUFFICES ASSUME SchedulerInit PROVE ScratchInv
    OBVIOUS
  <2>1. Len(tasks) = 0 /\ Ids = {} /\ Running = {} /\ dma_job = None
    BY DEF SchedulerInit, PlatformInit, Ids, Running
  <2>2. FIRMWARE_TASK_SLOT_COUNT \in Nat
    BY LayoutAssumption, Quotient DEF FIRMWARE_TASK_SLOT_COUNT
  <2> QED BY <2>1, <2>2 DEF ScratchInv
<1>2. ScratchInv /\ FirmwareInv /\ [SchedulerNext]_schedulerVars => ScratchInv'
  <2> SUFFICES ASSUME ScratchInv, FirmwareInv, [SchedulerNext]_schedulerVars
               PROVE  ScratchInv'
    OBVIOUS
  <2>1. /\ Len(tasks') <= FIRMWARE_TASK_SLOT_COUNT
        /\ Ids \subseteq Ids'
        /\ \A u \in Ids : Workload(u)' = Workload(u) /\ tasks'[u].priority = tasks[u].priority
        /\ \A u \in Ids' \ Ids : \A buffer \in Buffers(Workload(u)') : External(buffer)
    <3>1. CASE \E new \in Calls : Submit(new)
      <4>1. PICK new \in Calls : Submit(new)
        BY <3>1
      <4>2. PICK w \in new : tasks' = Append(tasks, w)
        BY <4>1 DEF Submit
      <4>3. \A buffer \in Buffers(w.workload) : External(buffer)
        BY <4>2, BufferAssumption
      <4>4. Len(tasks) < FIRMWARE_TASK_SLOT_COUNT /\ FIRMWARE_TASK_SLOT_COUNT \in Nat
        BY <4>1, LayoutAssumption, Quotient DEF FIRMWARE_TASK_SLOT_COUNT, Submit
      <4>5. /\ Len(tasks) \in Nat /\ Len(tasks') = Len(tasks) + 1
            /\ Ids = 1 .. Len(tasks) /\ Ids' = 1 .. (Len(tasks) + 1)
            /\ tasks'[Len(tasks) + 1] = w
            /\ \A u \in Ids : tasks'[u] = tasks[u]
        BY <4>2 DEF FirmwareInv, TasksOK, Ids
      <4> QED BY <4>3, <4>4, <4>5 DEF Workload
    <3>2. CASE ~ \E new \in Calls : Submit(new)
      <4>1. WorkloadsKept /\ Len(tasks') = Len(tasks)
        BY <3>2, StepsKeepWorkloads DEF SchedulerNext, FirmwareInv
      <4> QED BY <4>1 DEF WorkloadsKept, Workload, ScratchInv
    <3> QED BY <3>1, <3>2
  <2>2. \A t \in Ids' : \A buffer \in Buffers(Workload(t)') : External(buffer)
    BY <2>1 DEF ScratchInv
  <2>3. \A t \in Ids : \A phase : DmaJob(t, phase)' = DmaJob(t, phase)
    BY <2>1 DEF DmaJob
  <2>4. \A t \in Ids : CommandOf(t)' = CommandOf(t)
    BY <2>1 DEF CommandOf
  <2>5. dma_job' # None => dma_job'.task \in Ids' /\ dma_job' = DmaJob(dma_job.task, dma_job.phase)'
    <3>1. \A t \in Ids : \A phase : DmaJob(t, phase).task = t /\ DmaJob(t, phase).phase = phase
      BY DEF DmaJob
    <3> QED BY <2>1, <2>3, <3>1, StepsKeepJobs DEF ScratchInv
  <2>6. \A c \in Running' : TaskOf(c) \in Ids' /\ c = CommandOf(TaskOf(c))'
    <3>1. \A t \in Ids : TaskOf(CommandOf(t)) = t
      BY CommandTyped DEF FirmwareInv
    <3> QED BY <2>1, <2>4, <3>1, StepsKeepJobs DEF ScratchInv
  <2> QED BY <2>1, <2>2, <2>5, <2>6 DEF ScratchInv
<1> QED BY <1>1, <1>2, FirmwareInductive, PTL DEF Spec

\* Whole words of an operand that fits a part of whole words fit it, too.
LEMMA WordsFit ==
  ASSUME NEW part \in Nat, NEW k \in Int, part = k * WordBytes, NEW n \in 0 .. part
  PROVE  Words(n) \in 0 .. part
<1> DEFINE q == (n + WordBytes - 1) \div WordBytes
<1>1. WordBytes \in Nat \ {0} /\ n + WordBytes - 1 \in Nat
  BY BufferAssumption
<1>2. q \in Nat /\ q * WordBytes <= n + WordBytes - 1
  BY <1>1, Quotient
<1> HIDE DEF q
<1>3. q * WordBytes < k * WordBytes + WordBytes
  BY <1>1, <1>2
<1>4. CASE q <= k
  <2>1. k \in Nat /\ q * WordBytes <= k * WordBytes /\ q * WordBytes \in Nat
    BY <1>1, <1>2, <1>4, ProductGrows
  <2> QED BY <2>1 DEF Words, q
<1>5. CASE q > k
  <2>1. (k + 1) * WordBytes <= q * WordBytes
    BY <1>1, <1>2, <1>5
  <2>2. (k + 1) * WordBytes = k * WordBytes + WordBytes
    BY <1>1
  <2>3. q * WordBytes \in Int /\ k * WordBytes \in Int /\ (k + 1) * WordBytes \in Int
    BY <1>1, <1>2
  <2> QED BY <1>1, <1>3, <2>1, <2>2, <2>3
<1> QED BY <1>2, <1>4, <1>5

\* The parts of a slot.
LEMMA Layout ==
  /\ FIRMWARE_SOURCE1_OFFSET \in Nat /\ FIRMWARE_DESTINATION_OFFSET \in Nat
  /\ FIRMWARE_TASK_SLOT_BYTES \in Nat \ {0}
  /\ FIRMWARE_SOURCE1_OFFSET <= FIRMWARE_DESTINATION_OFFSET
  /\ FIRMWARE_DESTINATION_OFFSET <= FIRMWARE_TASK_SLOT_BYTES
  /\ \A n \in 0 .. FIRMWARE_SOURCE1_OFFSET : Words(n) \in 0 .. FIRMWARE_SOURCE1_OFFSET
  /\ LET part == FIRMWARE_DESTINATION_OFFSET - FIRMWARE_SOURCE1_OFFSET
     IN  \A n \in 0 .. part : Words(n) \in 0 .. part
  /\ LET part == FIRMWARE_TASK_SLOT_BYTES - FIRMWARE_DESTINATION_OFFSET
     IN  \A n \in 0 .. part : Words(n) \in 0 .. part
<1> DEFINE s1 == FIRMWARE_SOURCE1_OFFSET
           d == FIRMWARE_DESTINATION_OFFSET
           b == FIRMWARE_TASK_SLOT_BYTES
<1>1. /\ s1 \in Nat /\ d \in Nat /\ b \in Nat \ {0} /\ s1 <= d /\ d <= b
      /\ WordBytes \in Nat \ {0}
  BY LayoutAssumption, BufferAssumption
<1>2. PICK ks \in Nat, kd \in Nat, kb \in Nat :
        s1 = ks * WordBytes /\ d = kd * WordBytes /\ b = kb * WordBytes
  <2>1. \A n \in Nat : n % WordBytes = 0 => \E k \in Nat : n = k * WordBytes
    <3>1. ASSUME NEW n \in Nat, n % WordBytes = 0
          PROVE  n \div WordBytes \in Nat /\ n = (n \div WordBytes) * WordBytes
      BY <1>1, <3>1, Quotient
    <3> QED BY <3>1
  <2>2. s1 % WordBytes = 0 /\ d % WordBytes = 0 /\ b % WordBytes = 0
    BY BufferAssumption
  <2> HIDE DEF s1, d, b
  <2>3. PICK ks \in Nat : s1 = ks * WordBytes
    BY <1>1, <2>1, <2>2
  <2>4. PICK kd \in Nat : d = kd * WordBytes
    BY <1>1, <2>1, <2>2
  <2>5. PICK kb \in Nat : b = kb * WordBytes
    BY <1>1, <2>1, <2>2
  <2> QED BY <2>3, <2>4, <2>5
<1>3. d - s1 = (kd - ks) * WordBytes /\ b - d = (kb - kd) * WordBytes
  BY <1>1, <1>2
<1>4. /\ \A n \in 0 .. s1 : Words(n) \in 0 .. s1
      /\ \A n \in 0 .. d - s1 : Words(n) \in 0 .. d - s1
      /\ \A n \in 0 .. b - d : Words(n) \in 0 .. b - d
  <2> HIDE DEF s1, d, b
  <2>1. d - s1 \in Nat /\ b - d \in Nat /\ kd - ks \in Int /\ kb - kd \in Int
    BY <1>1, <1>2
  <2>2. \A part \in Nat, k \in Int : part = k * WordBytes
          => \A n \in 0 .. part : Words(n) \in 0 .. part
    BY WordsFit
  <2>3. \A n \in 0 .. s1 : Words(n) \in 0 .. s1
    <3>1. s1 \in Nat /\ ks \in Int /\ s1 = ks * WordBytes
      BY <1>1, <1>2
    <3> QED BY <2>2, <3>1, Zenon
  <2>4. \A n \in 0 .. d - s1 : Words(n) \in 0 .. d - s1
    BY <1>3, <2>1, <2>2, Zenon
  <2>5. \A n \in 0 .. b - d : Words(n) \in 0 .. b - d
    BY <1>3, <2>1, <2>2, Zenon
  <2> QED BY <2>3, <2>4, <2>5
<1> QED BY <1>1, <1>4

\* Slots of the tasks in the table are apart and inside the scratchpad.
LEMMA SlotsApart ==
  ASSUME FirmwareInv, ScratchInv, NEW t \in Ids
  PROVE  /\ Slot(t - 1) \in Nat /\ Slot(t) = Slot(t - 1) + FIRMWARE_TASK_SLOT_BYTES
         /\ SPM_BASE_ADDR <= Slot(t - 1) /\ Slot(t) <= SPM_BASE_ADDR + SPM_SIZE_BYTES
         /\ \A u \in Ids : t # u => Slot(t) <= Slot(u - 1) \/ Slot(u) <= Slot(t - 1)
<1> DEFINE b == FIRMWARE_TASK_SLOT_BYTES
           count == FIRMWARE_TASK_SLOT_COUNT
<1>1. /\ b \in Nat \ {0} /\ SPM_BASE_ADDR \in Nat /\ SPM_SIZE_BYTES \in Nat
      /\ count \in Nat /\ count * b <= SPM_SIZE_BYTES
  BY LayoutAssumption, Quotient DEF FIRMWARE_TASK_SLOT_COUNT
<1>2. Ids = 1 .. Len(tasks) /\ Len(tasks) \in Nat /\ Len(tasks) <= count
  BY DEF FirmwareInv, TasksOK, Ids, ScratchInv
<1> HIDE DEF b, count
<1>3. \A i, j \in Nat : i <= j => i * b <= j * b /\ i * b \in Nat /\ j * b \in Nat
  BY <1>1, ProductGrows
<1>4. t \in Nat /\ t - 1 \in Nat /\ t <= count
  BY <1>1, <1>2
<1>5. (t - 1) * b \in Nat /\ t * b = (t - 1) * b + b /\ t * b <= count * b /\ count * b \in Nat
  BY <1>1, <1>3, <1>4
<1>6. ASSUME NEW u \in Ids, t # u PROVE t * b <= (u - 1) * b \/ u * b <= (t - 1) * b
  <2>1. u \in Nat /\ u - 1 \in Nat /\ (t <= u - 1 \/ u <= t - 1)
    BY <1>2, <1>4, <1>6
  <2> QED BY <1>3, <1>4, <2>1
<1>7. \A u \in Ids : u * b \in Nat /\ (u - 1) * b \in Nat
  <2>1. \A u \in Ids : u \in Nat /\ u - 1 \in Nat
    BY <1>2
  <2>2. \A i \in Nat : i * b \in Nat
    BY <1>3
  <2> QED BY <2>1, <2>2
<1> QED BY <1>1, <1>5, <1>6, <1>7 DEF Slot, b

\* An operand lies in the slot of its task, apart from the others.
LEMMA OperandsPlaced ==
  ASSUME FirmwareInv, ScratchInv, NEW t \in Ids, Workload(t).kind # "DMA_COPY",
         NEW r \in Operands(CommandOf(t))
  PROVE  /\ r[1] \in Nat /\ r[2] \in Nat /\ InSlot(r, t)
         /\ \A s \in Operands(CommandOf(t)) \ {r} : Disjoint(r, s)
<1> DEFINE w == Workload(t)
           base == Slot(t - 1)
           w0 == Words(source0_bytes(w))
           w1 == Words(source1_bytes(w))
           wd == Words(output_bytes(w))
           first == <<base, w0>>
           second == <<base + FIRMWARE_SOURCE1_OFFSET, w1>>
           last == <<base + FIRMWARE_DESTINATION_OFFSET, wd>>
<1>1. TaskOf(CommandOf(t)) = t /\ AdmittedWorkload(w)
  BY CommandTyped, TableAdmitted DEF FirmwareInv
<1>2. base \in Nat /\ Slot(t) = base + FIRMWARE_TASK_SLOT_BYTES
  BY SlotsApart
<1>3. /\ source0_bytes(w) \in 0 .. FIRMWARE_SOURCE1_OFFSET
      /\ TwoOperands(t) => source1_bytes(w) # 0 /\ source1_bytes(w) \in
                             0 .. FIRMWARE_DESTINATION_OFFSET - FIRMWARE_SOURCE1_OFFSET
      /\ output_bytes(w) \in 0 .. FIRMWARE_TASK_SLOT_BYTES - FIRMWARE_DESTINATION_OFFSET
  BY <1>1, Layout, OperandsFit DEF TwoOperands, TwoOperandOpcodes
<1>4. /\ w0 \in 0 .. FIRMWARE_SOURCE1_OFFSET
      /\ TwoOperands(t) => w1 \in 0 .. FIRMWARE_DESTINATION_OFFSET - FIRMWARE_SOURCE1_OFFSET
      /\ wd \in 0 .. FIRMWARE_TASK_SLOT_BYTES - FIRMWARE_DESTINATION_OFFSET
  BY <1>3, Layout
<1>5. /\ CommandOf(t).source0 = base + 0
      /\ CommandOf(t).destination = base + FIRMWARE_DESTINATION_OFFSET
      /\ TwoOperands(t) => CommandOf(t).source1 = base + FIRMWARE_SOURCE1_OFFSET
  BY <1>3 DEF CommandOf, make_command, scratch_source0, scratch_source1, scratch_destination,
              FIRMWARE_SOURCE0_OFFSET
<1>6. Operands(CommandOf(t)) = {first, last} \cup IF TwoOperands(t) THEN {second} ELSE {}
  <2>1. base + 0 = base
    BY <1>2
  <2> HIDE DEF base, w0, w1, wd
  <2> QED BY <1>1, <1>5, <2>1 DEF Operands, w0, w1, wd
<1> HIDE DEF base, w0, w1, wd
<1>7. \A s \in Operands(CommandOf(t)) : \/ s = first \/ s = last
                                        \/ TwoOperands(t) /\ s = second
  <2> HIDE DEF first, second, last
  <2>1. CASE TwoOperands(t)
    BY <1>6, <2>1
  <2>2. CASE ~TwoOperands(t)
    BY <1>6, <2>2
  <2> QED BY <2>1, <2>2
<1>8. /\ first[1] = base /\ first[2] = w0
      /\ last[1] = base + FIRMWARE_DESTINATION_OFFSET /\ last[2] = wd
      /\ second[1] = base + FIRMWARE_SOURCE1_OFFSET /\ second[2] = w1
  OBVIOUS
<1>9. r[1] \in Nat /\ r[2] \in Nat /\ base <= r[1] /\ r[1] + r[2] <= Slot(t)
  BY <1>2, <1>4, <1>7, <1>8, Layout
<1>10. /\ Disjoint(first, last) /\ Disjoint(last, first)
       /\ TwoOperands(t) => /\ Disjoint(first, second) /\ Disjoint(second, first)
                            /\ Disjoint(last, second) /\ Disjoint(second, last)
  BY <1>2, <1>4, <1>8, Layout DEF Disjoint
<1>11. \A s \in Operands(CommandOf(t)) \ {r} : Disjoint(r, s)
  <2> HIDE DEF first, second, last
  <2> QED BY <1>7, <1>10
<1> QED BY <1>9, <1>11 DEF InSlot, base

\* A transfer goes between an external buffer and the slot of its task, or
\* between two buffers.
LEMMA TransferPlaced ==
  ASSUME FirmwareInv, ScratchInv, dma_job # None
  PROVE  LET slot == IF dma_job.phase = "STORE_OUTPUT" THEN SourceRange(dma_job)
                     ELSE DestinationRange(dma_job)
             other == IF dma_job.phase = "STORE_OUTPUT" THEN DestinationRange(dma_job)
                      ELSE SourceRange(dma_job)
         IN  /\ dma_job.task = active_dma_task /\ dma_job.task \in Ids
             /\ \A r \in {slot, other} : r[1] \in Nat /\ r[2] \in Nat
             /\ External(other)
             /\ IF dma_job.phase = "COPY" THEN External(slot) ELSE InSlot(slot, dma_job.task)
<1> DEFINE t == dma_job.task
           w == Workload(t)
           phase == dma_job.phase
           transfer == Transfer(t - 1, w, phase)
           base == Slot(t - 1)
<1>1. /\ t = active_dma_task /\ t \in Ids /\ phase = tasks[t].phase /\ phase \in DmaPhases
      /\ dma_job = DmaJob(t, phase)
  BY DEF FirmwareInv, DmaInv, OwnerInv, OwnershipConsistent, ScratchInv
<1>2. /\ dma_job.source = transfer[1] /\ dma_job.destination = transfer[2]
      /\ dma_job.length = transfer[3]
  <2>1. DmaJob(t, phase).source = transfer[1] /\ DmaJob(t, phase).destination = transfer[2]
        /\ DmaJob(t, phase).length = transfer[3]
    BY DEF DmaJob
  <2> HIDE DEF transfer
  <2> QED BY <1>1, <2>1
<1>3. /\ transfer[1] \in Nat /\ transfer[2] \in Nat /\ transfer[3] \in Nat \ {0}
      /\ AdmittedWorkload(w)
      /\ \A buffer \in Buffers(w) : External(buffer)
  BY <1>1, TransferTyped, TableAdmitted DEF FirmwareInv, ScratchInv
<1>4. base \in Nat /\ Slot(t) = base + FIRMWARE_TASK_SLOT_BYTES
  BY <1>1, SlotsApart
<1>5. phase = "COPY" <=> w.kind = "DMA_COPY"
  BY <1>1 DEF FirmwareInv, StageInv, PhaseInv, DmaPhases
<1>6. w.kind # "DMA_COPY" =>
        /\ source0_bytes(w) \in 1 .. FIRMWARE_SOURCE1_OFFSET
        /\ source1_bytes(w) # 0 =>
             source1_bytes(w) \in 1 .. FIRMWARE_DESTINATION_OFFSET - FIRMWARE_SOURCE1_OFFSET
        /\ output_bytes(w) \in 1 .. FIRMWARE_TASK_SLOT_BYTES - FIRMWARE_DESTINATION_OFFSET
  BY <1>3, OperandsFit
<1>7. phase = "LOAD_SOURCE1" => source1_bytes(w) # 0
  BY <1>1 DEF FirmwareInv, StageInv, PhaseInv
<1>8. SourceRange(dma_job) = <<transfer[1], transfer[3]>>
      /\ DestinationRange(dma_job) = <<transfer[2], transfer[3]>>
  BY <1>2 DEF SourceRange, DestinationRange
<1>9. CASE phase = "COPY"
  <2>1. Buffers(w) = {<<w.source0, w.length>>, <<w.destination, w.length>>}
    BY <1>5, <1>9 DEF Buffers
  <2>2. transfer[1] = w.source0 /\ transfer[2] = w.destination /\ transfer[3] = w.length
    BY <1>9 DEF Transfer
  <2> HIDE DEF transfer, w
  <2> QED BY <1>1, <1>3, <1>8, <1>9, <2>1, <2>2
<1>10. CASE phase = "LOAD_SOURCE0"
  <2>1. /\ transfer[1] = w.source0 /\ transfer[2] = base + 0 /\ transfer[3] = source0_bytes(w)
        /\ <<w.source0, source0_bytes(w)>> \in Buffers(w)
    BY <1>5, <1>10 DEF Transfer, Buffers, scratch_source0, FIRMWARE_SOURCE0_OFFSET
  <2>2. base <= transfer[2] /\ transfer[2] + transfer[3] <= Slot(t)
    BY <1>4, <1>5, <1>6, <1>10, <2>1, Layout
  <2> HIDE DEF transfer, w
  <2> QED BY <1>1, <1>3, <1>8, <1>10, <2>1, <2>2 DEF InSlot
<1>11. CASE phase = "LOAD_SOURCE1"
  <2>1. /\ transfer[1] = w.source1 /\ transfer[2] = base + FIRMWARE_SOURCE1_OFFSET
        /\ transfer[3] = source1_bytes(w)
        /\ <<w.source1, source1_bytes(w)>> \in Buffers(w)
    BY <1>5, <1>7, <1>11 DEF Transfer, Buffers, scratch_source1
  <2>2. base <= transfer[2] /\ transfer[2] + transfer[3] <= Slot(t)
    BY <1>4, <1>5, <1>6, <1>7, <1>11, <2>1, Layout
  <2> HIDE DEF transfer, w
  <2> QED BY <1>1, <1>3, <1>8, <1>11, <2>1, <2>2 DEF InSlot
<1>12. CASE phase = "STORE_OUTPUT"
  <2>1. /\ transfer[1] = base + FIRMWARE_DESTINATION_OFFSET /\ transfer[2] = w.destination
        /\ transfer[3] = output_bytes(w)
        /\ <<w.destination, output_bytes(w)>> \in Buffers(w)
    BY <1>5, <1>12 DEF Transfer, Buffers, scratch_destination
  <2>2. base <= transfer[1] /\ transfer[1] + transfer[3] <= Slot(t)
    BY <1>4, <1>5, <1>6, <1>12, <2>1, Layout
  <2> HIDE DEF transfer, w
  <2> QED BY <1>1, <1>3, <1>8, <1>12, <2>1, <2>2 DEF InSlot
<1> QED BY <1>1, <1>9, <1>10, <1>11, <1>12 DEF DmaPhases

\* While a transfer and a command run side by side, no scratchpad byte is
\* touched by both, and every task stays in its own slot.
THEOREM TasksKeepApart == Spec => []NoScratchConflict
<1>1. ASSUME FirmwareInv, ScratchInv PROVE NoScratchConflict
  <2>1. ASSUME NEW c \in Running
        PROVE  \E t \in Ids : /\ c = CommandOf(t) /\ TaskOf(c) = t
                              /\ t = active_accelerator_task
                              /\ Workload(t).kind # "DMA_COPY"
    <3> DEFINE t == active_accelerator_task
    <3>1. t # None /\ TaskOf(c) = t
      BY <1>1 DEF FirmwareInv, CmdInv, CmdBusy, Running
    <3>2. t \in Ids /\ tasks[t].phase = "EXECUTE" /\ c = CommandOf(t)
      BY <1>1, <3>1 DEF FirmwareInv, OwnerInv, OwnershipConsistent, ScratchInv
    <3>3. Workload(t).kind # "DMA_COPY"
      BY <1>1, <3>2 DEF FirmwareInv, StageInv, PhaseInv
    <3> QED BY <3>1, <3>2, <3>3
  <2>2. ASSUME NEW c \in Running, NEW r \in Operands(c)
        PROVE  /\ InSlot(r, TaskOf(c))
               /\ r[1] + r[2] <= SPM_BASE_ADDR + SPM_SIZE_BYTES
               /\ \A s \in Operands(c) \ {r} : Disjoint(r, s)
               /\ dma_job # None => /\ Disjoint(r, SourceRange(dma_job))
                                    /\ Disjoint(r, DestinationRange(dma_job))
    <3>1. PICK t \in Ids : /\ c = CommandOf(t) /\ TaskOf(c) = t
                           /\ t = active_accelerator_task
                           /\ Workload(t).kind # "DMA_COPY"
      BY <2>1
    <3>2. /\ r[1] \in Nat /\ r[2] \in Nat /\ InSlot(r, t)
          /\ \A s \in Operands(c) \ {r} : Disjoint(r, s)
      BY <1>1, <3>1, OperandsPlaced
    <3>3. /\ Slot(t - 1) \in Nat /\ Slot(t) \in Nat
          /\ SPM_BASE_ADDR <= Slot(t - 1) /\ Slot(t) <= SPM_BASE_ADDR + SPM_SIZE_BYTES
          /\ SPM_BASE_ADDR \in Nat /\ SPM_SIZE_BYTES \in Nat
      BY <1>1, SlotsApart, Layout, LayoutAssumption
    <3>4. \A s : s[1] \in Nat /\ s[2] \in Nat /\ External(s) => Disjoint(r, s)
      BY <3>2, <3>3 DEF External, Disjoint, InSlot
    <3>5. ASSUME NEW u \in Ids, u # t, NEW s, s[1] \in Nat, s[2] \in Nat, InSlot(s, u)
          PROVE  Disjoint(r, s)
      <4>1. Slot(t) <= Slot(u - 1) \/ Slot(u) <= Slot(t - 1)
        BY <1>1, <3>5, SlotsApart
      <4>2. Slot(u - 1) \in Nat /\ Slot(u) \in Nat
        BY <1>1, SlotsApart, Layout
      <4> QED BY <3>2, <3>3, <3>5, <4>1, <4>2 DEF Disjoint, InSlot
    <3>6. active_dma_task # t
      BY <1>1, <3>1 DEF FirmwareInv, OwnerInv, OwnershipConsistent
    <3>7. dma_job # None => /\ Disjoint(r, SourceRange(dma_job))
                            /\ Disjoint(r, DestinationRange(dma_job))
      BY <1>1, <3>4, <3>5, <3>6, TransferPlaced
    <3> QED BY <3>1, <3>2, <3>3, <3>7 DEF InSlot
  <2>3. dma_job # None /\ dma_job.phase # "COPY" =>
          InSlot(IF dma_job.phase = "STORE_OUTPUT" THEN SourceRange(dma_job)
                 ELSE DestinationRange(dma_job),
                 dma_job.task)
    BY <1>1, TransferPlaced
  <2> QED BY <2>2, <2>3 DEF NoScratchConflict
<1> QED BY <1>1, FirmwareInductive, ScratchInductive, PTL
=============================================================================
