-------------------------- MODULE CommandProcessor --------------------------
(***************************************************************************)
(* The command processor (rtl/command_queue/command_processor.sv): takes   *)
(* one descriptor at a time from the queue, dispatches it to the executor  *)
(* of its opcode, waits for that executor's response and holds the tagged  *)
(* completion until it is consumed.  The four command and response port    *)
(* groups of the module are functions over Targets.                        *)
(***************************************************************************)
EXTENDS Integers

CONSTANTS
  MAXIMUM_CYCLE_COUNT,  \* where the latency counter saturates
  NoResponse            \* a response port whose valid is low

Targets == {"DMA", "VECTOR", "REDUCTION", "GEMM"}

VARIABLES
  proc_state,         \* PROCESSOR_IDLE, PROCESSOR_WAIT or PROCESSOR_RESPONSE
  active_command_id,
  active_opcode,
  active_target,
  active_cycles,
  response_reg,
  command_completed,  \* one-cycle completion pulse
  command_error       \* one-cycle error pulse

processorVars == <<proc_state, active_command_id, active_opcode, active_target,
                   active_cycles, response_reg, command_completed, command_error>>

----------------------------------------------------------------------------

is_vector_opcode(opcode) ==
  opcode \in {"VECTOR_ADD", "VECTOR_MULTIPLY", "VECTOR_SCALE", "VECTOR_RELU",
              "VECTOR_CLAMP"}

is_reduction_opcode(opcode) == opcode \in {"REDUCE_SUM", "REDUCE_MAX"}

executor_for_opcode(opcode) ==
  CASE opcode = "DMA_COPY" -> "DMA"
    [] is_vector_opcode(opcode) -> "VECTOR"
    [] is_reduction_opcode(opcode) -> "REDUCTION"
    [] opcode = "GEMM" -> "GEMM"
    [] OTHER -> "INVALID"

\* <target>_cmd_valid, for the descriptor the queue presents (offer is the
\* set holding it, empty while queue_valid is low).
CmdValid(target, execution_enable, offer) ==
  /\ proc_state = "PROCESSOR_IDLE"
  /\ execution_enable
  /\ \E c \in offer : executor_for_opcode(c.opcode) = target

\* Faulty variant: the executor's ready is ignored.
QueueReadyAlways(execution_enable, offer, cmd_ready) ==
  proc_state = "PROCESSOR_IDLE" /\ execution_enable

\* queue_ready: idle, enabled and the executor of the descriptor, if its
\* opcode has one, is ready.
QueueReady(execution_enable, offer, cmd_ready) ==
  /\ proc_state = "PROCESSOR_IDLE"
  /\ execution_enable
  /\ \A c \in offer : LET target == executor_for_opcode(c.opcode)
                      IN  target = "INVALID" \/ cmd_ready[target]

RspReady(target) == proc_state = "PROCESSOR_WAIT" /\ active_target = target

SaturatingIncrement(cycles) ==
  IF cycles = MAXIMUM_CYCLE_COUNT THEN cycles ELSE cycles + 1

----------------------------------------------------------------------------

NullResponse ==
  [command_id |-> 0, opcode |-> "INVALID", error |-> "ERR_NONE",
   result |-> 0, cycles |-> 0]

ProcessorInit ==
  /\ proc_state = "PROCESSOR_IDLE"
  /\ active_command_id = 0
  /\ active_opcode = "INVALID"
  /\ active_target = "INVALID"
  /\ active_cycles = 0
  /\ response_reg = NullResponse
  /\ command_completed = FALSE
  /\ command_error = FALSE

ProcessorReset ==
  /\ proc_state' = "PROCESSOR_IDLE"
  /\ active_command_id' = 0
  /\ active_opcode' = "INVALID"
  /\ active_target' = "INVALID"
  /\ active_cycles' = 0
  /\ response_reg' = NullResponse
  /\ command_completed' = FALSE
  /\ command_error' = FALSE

\* Idle with nothing to dispatch, or with an executor that is not ready.
ProcessorIdle ==
  /\ active_cycles' = 0
  /\ command_completed' = FALSE
  /\ command_error' = FALSE
  /\ UNCHANGED <<proc_state, active_command_id, active_opcode, active_target,
                 response_reg>>

\* Faulty variant: the rejection carries the tags of the previous command.
RejectWithOldTags(c) ==
  /\ response_reg' = [command_id |-> active_command_id, opcode |-> active_opcode,
                      error |-> "ERR_OPCODE", result |-> 0, cycles |-> 0]
  /\ proc_state' = "PROCESSOR_RESPONSE"
  /\ command_completed' = TRUE
  /\ command_error' = TRUE
  /\ active_cycles' = 0
  /\ UNCHANGED <<active_command_id, active_opcode, active_target>>

\* dispatch_fire with an opcode no executor takes: an OPCODE completion.
RejectOpcode(c) ==
  /\ response_reg' = [command_id |-> c.command_id, opcode |-> c.opcode,
                      error |-> "ERR_OPCODE", result |-> 0, cycles |-> 0]
  /\ proc_state' = "PROCESSOR_RESPONSE"
  /\ command_completed' = TRUE
  /\ command_error' = TRUE
  /\ active_cycles' = 0
  /\ UNCHANGED <<active_command_id, active_opcode, active_target>>

\* dispatch_fire with a legal opcode: remember the tags and wait.
DispatchCommand(c) ==
  /\ active_command_id' = c.command_id
  /\ active_opcode' = c.opcode
  /\ active_target' = executor_for_opcode(c.opcode)
  /\ proc_state' = "PROCESSOR_WAIT"
  /\ active_cycles' = 0
  /\ command_completed' = FALSE
  /\ command_error' = FALSE
  /\ UNCHANGED response_reg

AwaitResponse ==
  /\ active_cycles' = SaturatingIncrement(active_cycles)
  /\ command_completed' = FALSE
  /\ command_error' = FALSE
  /\ UNCHANGED <<proc_state, active_command_id, active_opcode, active_target,
                 response_reg>>

\* completion_fire: tags come from the processor, the rest from the executor,
\* except that a zero cycle count is replaced by the measured latency.
CompleteCommand(rsp) ==
  /\ active_cycles' = SaturatingIncrement(active_cycles)
  /\ response_reg' =
       [command_id |-> active_command_id, opcode |-> active_opcode,
        error |-> rsp.error, result |-> rsp.result,
        cycles |-> IF rsp.cycles # 0 THEN rsp.cycles
                   ELSE SaturatingIncrement(active_cycles)]
  /\ proc_state' = "PROCESSOR_RESPONSE"
  /\ command_completed' = TRUE
  /\ command_error' = (rsp.error # "ERR_NONE")
  /\ UNCHANGED <<active_command_id, active_opcode, active_target>>

\* Faulty variant: the completion pulse lasts as long as the response.
PulseHeld(response_ready) ==
  /\ proc_state' = IF response_ready THEN "PROCESSOR_IDLE" ELSE proc_state
  /\ UNCHANGED <<active_command_id, active_opcode, active_target, active_cycles,
                 response_reg, command_completed, command_error>>

HoldResponse(response_ready) ==
  /\ proc_state' = IF response_ready THEN "PROCESSOR_IDLE" ELSE proc_state
  /\ command_completed' = FALSE
  /\ command_error' = FALSE
  /\ UNCHANGED <<active_command_id, active_opcode, active_target, active_cycles,
                 response_reg>>

\* One clock edge, by the state of the processor.
ProcessorClock(execution_enable, offer, cmd_ready, rsp, response_ready) ==
  \/ /\ proc_state = "PROCESSOR_IDLE"
     /\ IF QueueReady(execution_enable, offer, cmd_ready)
          THEN \/ offer = {} /\ ProcessorIdle
               \/ \E c \in offer :
                    IF executor_for_opcode(c.opcode) = "INVALID"
                      THEN RejectOpcode(c) ELSE DispatchCommand(c)
          ELSE ProcessorIdle
  \/ /\ proc_state = "PROCESSOR_WAIT"
     /\ IF rsp[active_target] = NoResponse
          THEN AwaitResponse ELSE CompleteCommand(rsp[active_target])
  \/ /\ proc_state = "PROCESSOR_RESPONSE"
     /\ HoldResponse(response_ready)
=============================================================================
