----------------------------- MODULE WorkloadApi -----------------------------
(***************************************************************************)
(* The firmware's workload interface (firmware/workloads/workload_api.cpp) *)
(* and what the scheduler computes from a workload: the byte counts of its *)
(* operands, the scratchpad slot of its task, the transfers and the        *)
(* command that carry it out.  Task names and error texts are left out; a  *)
(* call that throws adds no task, an overflow is passed on as Overflow.    *)
(***************************************************************************)
EXTENDS Integers

CONSTANTS
  UINT32_MAX, kElementBytes,
  SPM_BASE_ADDR, SPM_SIZE_BYTES,
  FIRMWARE_TASK_SLOT_BYTES, FIRMWARE_SOURCE1_OFFSET, FIRMWARE_DESTINATION_OFFSET,
  DEFAULT_MAX_VECTOR_LENGTH, DEFAULT_MAX_REDUCTION_LENGTH,
  DEFAULT_MAX_GEMM_M, DEFAULT_MAX_GEMM_N, DEFAULT_MAX_GEMM_K

\* The memory map, and that the largest operands fit their part of a slot
\* (soc_memory_map.hpp, soc_registers.hpp).
ASSUME LayoutAssumption ==
  /\ {UINT32_MAX, SPM_BASE_ADDR, SPM_SIZE_BYTES, FIRMWARE_SOURCE1_OFFSET,
      FIRMWARE_DESTINATION_OFFSET, DEFAULT_MAX_VECTOR_LENGTH, DEFAULT_MAX_REDUCTION_LENGTH,
      DEFAULT_MAX_GEMM_M, DEFAULT_MAX_GEMM_N, DEFAULT_MAX_GEMM_K} \subseteq Nat
  /\ {kElementBytes, FIRMWARE_TASK_SLOT_BYTES} \subseteq Nat \ {0}
  /\ FIRMWARE_TASK_SLOT_BYTES <= UINT32_MAX
  /\ \A part \in {FIRMWARE_SOURCE1_OFFSET,
                  FIRMWARE_DESTINATION_OFFSET - FIRMWARE_SOURCE1_OFFSET,
                  FIRMWARE_TASK_SLOT_BYTES - FIRMWARE_DESTINATION_OFFSET} :
       /\ DEFAULT_MAX_VECTOR_LENGTH * kElementBytes <= part
       /\ DEFAULT_MAX_REDUCTION_LENGTH * kElementBytes <= part
       /\ (DEFAULT_MAX_GEMM_M * DEFAULT_MAX_GEMM_K) * kElementBytes <= part
       /\ (DEFAULT_MAX_GEMM_K * DEFAULT_MAX_GEMM_N) * kElementBytes <= part
       /\ (DEFAULT_MAX_GEMM_M * DEFAULT_MAX_GEMM_N) * kElementBytes <= part
       /\ kElementBytes <= part

FIRMWARE_SOURCE0_OFFSET == 0
FIRMWARE_TASK_SLOT_COUNT == SPM_SIZE_BYTES \div FIRMWARE_TASK_SLOT_BYTES

TaskStates == {"READY", "RUNNING", "BLOCKED_ON_DMA", "BLOCKED_ON_ACCEL", "DONE", "ERROR"}
WorkloadKinds == {"DMA_COPY", "VECTOR", "REDUCTION", "GEMM"}
TaskPhases == {"COPY", "LOAD_SOURCE0", "LOAD_SOURCE1", "EXECUTE", "STORE_OUTPUT", "COMPLETE"}

Overflow == -1

----------------------------------------------------------------------------
(* Submissions: the set of the one task a call adds, empty if it throws      *)
(* invalid_argument.                                                         *)

WorkloadDescriptor(kind, opcode, source0, source1, destination, length, dimensions, flags) ==
  [kind |-> kind, opcode |-> opcode, source0 |-> source0, source1 |-> source1,
   destination |-> destination, length |-> length, rows |-> dimensions[1],
   columns |-> dimensions[2], inner |-> dimensions[3], flags |-> flags]

NoDimensions == <<0, 0, 0>>

NewTask(priority, workload, initial_phase) ==
  {[priority |-> priority, state |-> "READY", phase |-> initial_phase, workload |-> workload]}

operation_flags(signed_mode, saturate) ==
  {"IRQ_ON_DONE"} \cup (IF signed_mode THEN {"SIGNED"} ELSE {})
                  \cup (IF saturate THEN {"SATURATE"} ELSE {})

submit_dma_copy(source, destination, length_bytes, priority) ==
  IF length_bytes = 0 THEN {}
  ELSE NewTask(priority,
               WorkloadDescriptor("DMA_COPY", "DMA_COPY", source, 0, destination, length_bytes,
                                  NoDimensions, {}),
               "COPY")

submit_vector_add(source0, source1, destination, length, priority, signed_mode, saturate) ==
  IF length \notin 1 .. DEFAULT_MAX_VECTOR_LENGTH THEN {}
  ELSE NewTask(priority,
               WorkloadDescriptor("VECTOR", "VECTOR_ADD", source0, source1, destination, length,
                                  NoDimensions, operation_flags(signed_mode, saturate)),
               "LOAD_SOURCE0")

submit_vector_relu_or_clamp(source0, source1, destination, length, clamp, priority, signed_mode) ==
  IF length \notin 1 .. DEFAULT_MAX_VECTOR_LENGTH THEN {}
  ELSE NewTask(priority,
               WorkloadDescriptor("VECTOR", IF clamp THEN "VECTOR_CLAMP" ELSE "VECTOR_RELU",
                                  source0, source1, destination, length, NoDimensions,
                                  operation_flags(signed_mode, FALSE)),
               "LOAD_SOURCE0")

submit_reduce_sum(source, destination, length, priority, signed_mode, saturate) ==
  IF length \notin 1 .. DEFAULT_MAX_REDUCTION_LENGTH THEN {}
  ELSE NewTask(priority,
               WorkloadDescriptor("REDUCTION", "REDUCE_SUM", source, 0, destination, length,
                                  NoDimensions, operation_flags(signed_mode, saturate)),
               "LOAD_SOURCE0")

submit_reduce_max(source, destination, length, priority, signed_mode) ==
  IF length \notin 1 .. DEFAULT_MAX_REDUCTION_LENGTH THEN {}
  ELSE NewTask(priority,
               WorkloadDescriptor("REDUCTION", "REDUCE_MAX", source, 0, destination, length,
                                  NoDimensions, operation_flags(signed_mode, FALSE)),
               "LOAD_SOURCE0")

submit_gemm(source0, source1, destination, dimensions, priority, signed_mode, saturate) ==
  IF \/ dimensions[1] \notin 1 .. DEFAULT_MAX_GEMM_M
     \/ dimensions[2] \notin 1 .. DEFAULT_MAX_GEMM_N
     \/ dimensions[3] \notin 1 .. DEFAULT_MAX_GEMM_K
    THEN {}
  ELSE NewTask(priority,
               WorkloadDescriptor("GEMM", "GEMM", source0, source1, destination, 0, dimensions,
                                  operation_flags(signed_mode, saturate)),
               "LOAD_SOURCE0")

Opcodes == {"DMA_COPY", "VECTOR_ADD", "VECTOR_RELU", "VECTOR_CLAMP", "REDUCE_SUM",
            "REDUCE_MAX", "GEMM"}
Flags == {"IRQ_ON_DONE", "SIGNED", "SATURATE"}

Workloads ==
  [kind : WorkloadKinds, opcode : Opcodes, source0 : Nat, source1 : Nat, destination : Nat,
   length : Nat, rows : Nat, columns : Nat, inner : Nat, flags : SUBSET Flags]

\* What every task a call adds is like: the checks of the calls above.
AdmittedWorkload(w) ==
  \/ w.kind = "DMA_COPY" /\ w.opcode = "DMA_COPY" /\ w.length \in 1 .. UINT32_MAX
  \/ /\ w.kind = "VECTOR" /\ w.opcode \in {"VECTOR_ADD", "VECTOR_RELU", "VECTOR_CLAMP"}
     /\ w.length \in 1 .. DEFAULT_MAX_VECTOR_LENGTH
  \/ /\ w.kind = "REDUCTION" /\ w.opcode \in {"REDUCE_SUM", "REDUCE_MAX"}
     /\ w.length \in 1 .. DEFAULT_MAX_REDUCTION_LENGTH
  \/ /\ w.kind = "GEMM" /\ w.opcode = "GEMM"
     /\ w.rows \in 1 .. DEFAULT_MAX_GEMM_M
     /\ w.columns \in 1 .. DEFAULT_MAX_GEMM_N
     /\ w.inner \in 1 .. DEFAULT_MAX_GEMM_K

Admitted(new) ==
  /\ new \in [priority : Nat, state : {"READY"}, phase : TaskPhases, workload : Workloads]
  /\ new.phase = IF new.workload.kind = "DMA_COPY" THEN "COPY" ELSE "LOAD_SOURCE0"
  /\ AdmittedWorkload(new.workload)

----------------------------------------------------------------------------
(* Byte counts; an overflow is passed on. *)

checked_product(lhs, rhs) ==
  IF lhs = Overflow \/ lhs * rhs > UINT32_MAX THEN Overflow ELSE lhs * rhs

Matrix(rows, columns) == checked_product(checked_product(rows, columns), kElementBytes)

source0_bytes(w) ==
  IF w.kind = "GEMM" THEN Matrix(w.rows, w.inner) ELSE checked_product(w.length, kElementBytes)

source1_bytes(w) ==
  IF w.kind = "GEMM" THEN Matrix(w.inner, w.columns)
  ELSE IF w.kind = "VECTOR" /\ w.opcode # "VECTOR_RELU"
    THEN checked_product(w.length, kElementBytes)
  ELSE 0

output_bytes(w) ==
  CASE w.kind = "GEMM" -> Matrix(w.rows, w.columns)
    [] w.kind = "REDUCTION" -> kElementBytes
    [] OTHER -> checked_product(w.length, kElementBytes)

\* The buffers of the application a task reads and writes, as address and size,
\* and that one of them lies outside the scratchpad.
Buffers(w) ==
  IF w.kind = "DMA_COPY" THEN {<<w.source0, w.length>>, <<w.destination, w.length>>}
  ELSE {<<w.source0, source0_bytes(w)>>, <<w.destination, output_bytes(w)>>}
       \cup IF source1_bytes(w) = 0 THEN {} ELSE {<<w.source1, source1_bytes(w)>>}

External(buffer) ==
  \/ buffer[1] + buffer[2] <= SPM_BASE_ADDR
  \/ SPM_BASE_ADDR + SPM_SIZE_BYTES <= buffer[1]

----------------------------------------------------------------------------
(* The scratchpad slot of a task; task ids count from zero. *)

Slot(id) == SPM_BASE_ADDR + id * FIRMWARE_TASK_SLOT_BYTES

scratch_source0(id) == Slot(id) + FIRMWARE_SOURCE0_OFFSET
scratch_source1(id) == Slot(id) + FIRMWARE_SOURCE1_OFFSET

\* Faulty variant: the slot of the task is forgotten.
SharedDestination(id) == SPM_BASE_ADDR + FIRMWARE_DESTINATION_OFFSET

scratch_destination(id) == Slot(id) + FIRMWARE_DESTINATION_OFFSET

\* The transfer dispatch_dma starts in a phase: source, destination, length.
Transfer(id, w, phase) ==
  CASE phase = "COPY" -> <<w.source0, w.destination, w.length>>
    [] phase = "LOAD_SOURCE0" -> <<w.source0, scratch_source0(id), source0_bytes(w)>>
    [] phase = "LOAD_SOURCE1" -> <<w.source1, scratch_source1(id), source1_bytes(w)>>
    [] phase = "STORE_OUTPUT" -> <<scratch_destination(id), w.destination, output_bytes(w)>>

\* The descriptor dispatch_accelerator submits; command_id identifies the task.
make_command(id, w, priority) ==
  [opcode |-> w.opcode, source0 |-> scratch_source0(id),
   source1 |-> IF source1_bytes(w) = 0 THEN 0 ELSE scratch_source1(id),
   destination |-> scratch_destination(id), length |-> w.length, rows |-> w.rows,
   columns |-> w.columns, inner |-> w.inner, flags |-> w.flags, priority |-> priority,
   command_id |-> id]

\* What dispatch starts on the two units.
Jobs == [task : Nat, phase : TaskPhases, source : Nat, destination : Nat, length : Nat]
Commands ==
  [opcode : Opcodes, source0 : Nat, source1 : Nat, destination : Nat, length : Nat, rows : Nat,
   columns : Nat, inner : Nat, flags : SUBSET Flags, priority : Nat, command_id : Nat]
=============================================================================
