---------------------------- MODULE DmaSubsystem ----------------------------
(***************************************************************************)
(* One DMA engine, two users: direct starts through the DMA registers      *)
(* (rtl/regs/soc_register_block.sv) and queued DMA_COPY commands through   *)
(* the command adapter (rtl/dma/dma_command_adapter.sv), wired as in       *)
(* soc_top.  The engine is module DmaEngine; its memory ports answer after *)
(* any delay, with or without an error.                                    *)
(***************************************************************************)
EXTENDS Integers, TLAPS

CONSTANTS DMA_DATA_BYTES, MAX_BURST_BEATS, Regions, Unwritten, NoResponse,
          Transfers,            \* operands of direct and of queued transfers
          CommandIds,           \* IDs of queued commands
          MAXIMUM_CYCLE_COUNT   \* where the adapter's latency counter saturates

VARIABLES
  dma_state, current_source_address, current_destination_address,
  bytes_remaining, read_data, burst_index, engine_busy, engine_done, engine_error,
  engine_error_code, start_accepted, start_rejected, bytes_read_event,
  bytes_written_event,
  dma_start,      \* one-cycle start pulse of the register block
  dma_registers,  \* DMA_SRC_ADDR, DMA_DST_ADDR and DMA_LEN_BYTES
  adapter_state,  \* ADAPTER_IDLE, ADAPTER_WAIT or ADAPTER_RESPONSE
  adapter_command_id, adapter_length, adapter_cycles, adapter_response,
  owner           \* history: whose transfer the engine ran last

Engine == INSTANCE DmaEngine

adapterVars == <<adapter_state, adapter_command_id, adapter_length, adapter_cycles,
                 adapter_response>>

subsystemVars == <<Engine!engineVars, dma_start, dma_registers, adapterVars, owner>>

NoTransfer == [src |-> 0, dst |-> 0, len |-> 0]

NullResponse == [command_id |-> 0, error |-> "ERR_NONE", result |-> 0, cycles |-> 0]

----------------------------------------------------------------------------
(* The adapter's combinational outputs. *)

\* Faulty variant: a command is taken while a direct transfer runs.
CommandReadyWhileBusy == adapter_state = "ADAPTER_IDLE" /\ ~dma_start

command_ready == adapter_state = "ADAPTER_IDLE" /\ ~engine_busy /\ ~dma_start

CommandFire(command_valid) == command_valid /\ command_ready

engine_start(command_valid) == dma_start \/ CommandFire(command_valid)

\* The operands of the start: the command's when the command fires.
Operands(command_valid, command) ==
  IF CommandFire(command_valid) THEN command ELSE dma_registers

----------------------------------------------------------------------------

SubsystemInit ==
  /\ Engine!EngineInit
  /\ dma_start = FALSE
  /\ dma_registers = NoTransfer
  /\ adapter_state = "ADAPTER_IDLE"
  /\ adapter_command_id = 0
  /\ adapter_length = 0
  /\ adapter_cycles = 0
  /\ adapter_response = NullResponse
  /\ owner = "none"

SubsystemReset ==
  /\ Engine!EngineReset
  /\ dma_start' = FALSE
  /\ dma_registers' = NoTransfer
  /\ adapter_state' = "ADAPTER_IDLE"
  /\ adapter_command_id' = 0
  /\ adapter_length' = 0
  /\ adapter_cycles' = 0
  /\ adapter_response' = NullResponse
  /\ owner' = "none"

\* Faulty variant: a start write to a busy engine is passed on.
StartWriteUnchecked(start_write, operands) ==
  /\ dma_start' = (start_write /\ ~dma_start)
  /\ dma_registers' = IF start_write /\ ~dma_start THEN operands ELSE dma_registers

\* A start write executes only while the engine reports idle, and shows as a
\* pulse in the next cycle; no second write executes in the pulse cycle,
\* where the write response is still pending.
RegisterClock(start_write, operands) ==
  LET honoured == start_write /\ ~engine_busy /\ ~dma_start
  IN  /\ dma_start' = honoured
      /\ dma_registers' = IF honoured THEN operands ELSE dma_registers

SaturatingIncrement(cycles) ==
  IF cycles = MAXIMUM_CYCLE_COUNT THEN cycles ELSE cycles + 1

AdapterIdle(command_valid, command_id, command) ==
  /\ adapter_state = "ADAPTER_IDLE"
  /\ adapter_cycles' = 0
  /\ IF CommandFire(command_valid)
       THEN /\ adapter_command_id' = command_id
            /\ adapter_length' = command.len
            /\ adapter_state' = "ADAPTER_WAIT"
       ELSE UNCHANGED <<adapter_command_id, adapter_length, adapter_state>>
  /\ UNCHANGED adapter_response

\* Faulty variant: a failed transfer does not complete the command.
AdapterIgnoresErrors ==
  /\ adapter_state = "ADAPTER_WAIT"
  /\ adapter_cycles' = SaturatingIncrement(adapter_cycles)
  /\ IF engine_done /\ ~engine_error
       THEN /\ adapter_response' =
                 [command_id |-> adapter_command_id, error |-> "ERR_NONE",
                  result |-> adapter_length, cycles |-> SaturatingIncrement(adapter_cycles)]
            /\ adapter_state' = "ADAPTER_RESPONSE"
       ELSE UNCHANGED <<adapter_response, adapter_state>>
  /\ UNCHANGED <<adapter_command_id, adapter_length>>

AdapterWait ==
  /\ adapter_state = "ADAPTER_WAIT"
  /\ adapter_cycles' = SaturatingIncrement(adapter_cycles)
  /\ IF engine_done
       THEN /\ adapter_response' =
                 [command_id |-> adapter_command_id,
                  error |-> IF engine_error THEN engine_error_code ELSE "ERR_NONE",
                  result |-> IF engine_error THEN 0 ELSE adapter_length,
                  cycles |-> SaturatingIncrement(adapter_cycles)]
            /\ adapter_state' = "ADAPTER_RESPONSE"
       ELSE UNCHANGED <<adapter_response, adapter_state>>
  /\ UNCHANGED <<adapter_command_id, adapter_length>>

AdapterRespond(response_ready) ==
  /\ adapter_state = "ADAPTER_RESPONSE"
  /\ adapter_state' = IF response_ready THEN "ADAPTER_IDLE" ELSE adapter_state
  /\ UNCHANGED <<adapter_command_id, adapter_length, adapter_cycles, adapter_response>>

AdapterClock(command_valid, command_id, command, response_ready) ==
  \/ AdapterIdle(command_valid, command_id, command)
  \/ AdapterWait
  \/ AdapterRespond(response_ready)

\* History: the engine accepts a start only in its idle state.
OwnerStep(command_valid) ==
  owner' = IF dma_state = "DMA_IDLE" /\ engine_start(command_valid)
             THEN IF CommandFire(command_valid) THEN "queued" ELSE "direct"
             ELSE owner

\* One clock edge of register block, adapter and engine together.  The memory
\* ports share one answer because the engine uses one port at a time.
SubsystemClock(start_write, direct, command_valid, command_id, command, ready, rsp, response_ready) ==
  LET t == Operands(command_valid, command)
  IN  /\ Engine!EngineClock(engine_start(command_valid), t.src, t.dst, t.len,
                            ready, rsp, ready, rsp)
      /\ RegisterClock(start_write, direct)
      /\ AdapterClock(command_valid, command_id, command, response_ready)
      /\ OwnerStep(command_valid)

\* The memory answers requests only.
Answers == {NoResponse} \cup
  IF dma_state \in {"DMA_READ_RESPONSE", "DMA_WRITE_RESPONSE"}
    THEN {[error |-> TRUE], [error |-> FALSE, data |-> "word"]} ELSE {}

Cycle(ready, rsp, response_ready) ==
  \E start_write, command_valid \in BOOLEAN :
    \E direct \in IF start_write THEN Transfers ELSE {NoTransfer},
       command \in IF command_valid THEN Transfers ELSE {NoTransfer},
       command_id \in IF command_valid THEN CommandIds ELSE {0} :
      SubsystemClock(start_write, direct, command_valid, command_id, command,
                     ready, rsp, response_ready)

\* The clock runs.
Ticks ==
  \E ready, response_ready \in BOOLEAN, rsp \in Answers : Cycle(ready, rsp, response_ready)

Next == Ticks \/ SubsystemReset

\* The memory fabric accepts every request and answers it.
MemoryAnswers ==
  /\ engine_busy
  /\ \E response_ready \in BOOLEAN, rsp \in Answers :
       /\ rsp = NoResponse => Answers = {NoResponse}
       /\ Cycle(TRUE, rsp, response_ready)

FairSpec == SubsystemInit /\ [][Next]_subsystemVars
            /\ WF_subsystemVars(Ticks) /\ WF_subsystemVars(MemoryAnswers)

----------------------------------------------------------------------------

\* The engine's done event reaches the adapter while it waits exactly when
\* the finished transfer is its own: a queued command is never completed by
\* the end of a direct transfer, nor left waiting by the end of its own.
\* While the adapter waits, the engine works for it, or has just finished.
CompletionIsOwn ==
  /\ engine_done => (adapter_state = "ADAPTER_WAIT" <=> owner = "queued")
  /\ adapter_state = "ADAPTER_WAIT" => owner = "queued" /\ (engine_busy \/ engine_done)

\* A start rejected as busy never shares a cycle with the end of the running
\* transfer.  If it did, the transfer would report DMA_BUSY as its own error:
\* the engine does not clear the error event when a transfer succeeds.
RejectionNeverMasksCompletion ==
  /\ ~(start_rejected /\ engine_done)
  /\ adapter_response.error # "ERR_DMA_BUSY"

\* Every queued command that was accepted is answered, unless a reset drops it:
\* direct transfers, rejected starts and memory errors never leave the adapter
\* waiting for a completion that has gone by.
QueuedCommandAnswered ==
  adapter_state = "ADAPTER_WAIT" ~> adapter_state # "ADAPTER_WAIT"

----------------------------------------------------------------------------
(* Completion ownership, proved for every set of transfers, regions and     *)
(* command IDs, every word and burst size and every behaviour of the memory *)
(* ports.                                                                   *)

\* The engine's busy register mirrors its state, and done ends a transfer.
EngineCoherent ==
  /\ dma_state \in {"DMA_IDLE", "DMA_READ_REQUEST", "DMA_READ_RESPONSE",
                    "DMA_WRITE_REQUEST", "DMA_WRITE_RESPONSE"}
  /\ engine_busy = (dma_state # "DMA_IDLE")
  /\ engine_done => ~engine_busy /\ engine_error_code # "ERR_DMA_BUSY" /\ ~start_rejected

\* A start pulse is one cycle old when the engine sees it.  The write it comes
\* from met an idle engine, so a command that fires in between has the engine
\* at its first request, never in a state that can end the transfer.
PulseIsFresh ==
  /\ dma_start \in BOOLEAN
  /\ dma_start => dma_state \in {"DMA_IDLE", "DMA_READ_REQUEST"}

\* From its start up to its done event, a transfer is the queued one exactly
\* while the adapter waits.
OwnerWaits ==
  /\ adapter_state \in {"ADAPTER_IDLE", "ADAPTER_WAIT", "ADAPTER_RESPONSE"}
  /\ engine_busy \/ engine_done => (adapter_state = "ADAPTER_WAIT" <=> owner = "queued")
  /\ adapter_state = "ADAPTER_WAIT" => engine_busy \/ engine_done
  /\ adapter_response.error # "ERR_DMA_BUSY"

\* The inductive invariant.  CompletionIsOwn alone is not inductive: it speaks
\* of the owner only in the done cycle, and it does not tell a rejected pulse
\* from one that could meet the end of the transfer.
DmaInv == EngineCoherent /\ PulseIsFresh /\ OwnerWaits

\* A start that meets a busy engine is a direct one, and meets it in its
\* first request.
LEMMA RejectedAtFirstRequest ==
  ASSUME DmaInv, NEW command_valid \in BOOLEAN, engine_busy, engine_start(command_valid)
  PROVE  dma_state = "DMA_READ_REQUEST" /\ ~CommandFire(command_valid)
BY DEF DmaInv, EngineCoherent, PulseIsFresh, engine_start, CommandFire, command_ready

\* What one clock edge of the engine does to its events, whichever state it
\* is in.
LEMMA EngineStep ==
  ASSUME DmaInv, NEW command_valid \in BOOLEAN, NEW source, NEW destination, NEW length,
         NEW ready \in BOOLEAN, NEW rsp,
         Engine!EngineClock(engine_start(command_valid), source, destination, length,
                            ready, rsp, ready, rsp)
  PROVE  /\ EngineCoherent'
         /\ dma_state = "DMA_IDLE" =>
              /\ engine_busy' \/ engine_done' <=> engine_start(command_valid)
              /\ dma_state' \in {"DMA_IDLE", "DMA_READ_REQUEST"}
         /\ dma_state # "DMA_IDLE" => engine_busy' \/ engine_done'
<1> DEFINE start == engine_start(command_valid)
<1>0. start \in BOOLEAN /\ start = engine_start(command_valid)
  BY DEF engine_start, CommandFire, command_ready, DmaInv, PulseIsFresh
<1>1. engine_busy /\ start => dma_state = "DMA_READ_REQUEST"
  BY RejectedAtFirstRequest
<1>2. engine_busy = (dma_state # "DMA_IDLE")
  BY DEF DmaInv, EngineCoherent
<1> HIDE DEF start
<1> USE <1>0, <1>1, <1>2 DEF EngineCoherent, Engine!Announce, Engine!Rejected, Engine!Enter
<1>3. CASE Engine!Idle(start, source, destination, length)
  BY <1>3 DEF Engine!Idle
<1>4. CASE \/ Engine!Request("DMA_READ_REQUEST", "DMA_READ_RESPONSE", start, ready)
           \/ Engine!Request("DMA_WRITE_REQUEST", "DMA_WRITE_RESPONSE", start, ready)
  BY <1>4 DEF Engine!Request
<1>5. CASE \/ Engine!AwaitPort("DMA_READ_RESPONSE", start, rsp)
           \/ Engine!AwaitPort("DMA_WRITE_RESPONSE", start, rsp)
  BY <1>5 DEF Engine!AwaitPort
<1>6. CASE \/ Engine!PortError("DMA_READ_RESPONSE", start, rsp)
           \/ Engine!PortError("DMA_WRITE_RESPONSE", start, rsp)
  BY <1>6 DEF Engine!PortError
<1>7. CASE Engine!ReadDone(start, rsp)
  BY <1>7 DEF Engine!ReadDone
<1>8. CASE Engine!WriteDone(start, rsp)
  BY <1>8 DEF Engine!WriteDone
<1> QED BY <1>3, <1>4, <1>5, <1>6, <1>7, <1>8 DEF Engine!EngineClock, start

\* One clock edge of the subsystem keeps the invariant.
LEMMA ClockKeepsInv ==
  ASSUME DmaInv, NEW start_write \in BOOLEAN, NEW direct, NEW command_valid \in BOOLEAN,
         NEW command_id, NEW command, NEW ready \in BOOLEAN, NEW rsp,
         NEW response_ready \in BOOLEAN,
         SubsystemClock(start_write, direct, command_valid, command_id, command,
                        ready, rsp, response_ready)
  PROVE  DmaInv'
<1> DEFINE t == Operands(command_valid, command)
<1>1. /\ EngineCoherent'
      /\ dma_state = "DMA_IDLE" =>
           /\ engine_busy' \/ engine_done' <=> engine_start(command_valid)
           /\ dma_state' \in {"DMA_IDLE", "DMA_READ_REQUEST"}
      /\ dma_state # "DMA_IDLE" => engine_busy' \/ engine_done'
  <2>1. Engine!EngineClock(engine_start(command_valid), t.src, t.dst, t.len,
                           ready, rsp, ready, rsp)
    BY DEF SubsystemClock
  <2> HIDE DEF t
  <2> QED BY <2>1, EngineStep
<1>2. PulseIsFresh'
  BY <1>1 DEF SubsystemClock, RegisterClock, PulseIsFresh, DmaInv, EngineCoherent
<1>3. OwnerWaits'
  <2> USE DEF DmaInv, EngineCoherent, PulseIsFresh, OwnerWaits, OwnerStep, engine_start,
              CommandFire, command_ready
  <2>1. OwnerStep(command_valid)
    BY DEF SubsystemClock
  <2>2. CASE AdapterIdle(command_valid, command_id, command)
    BY <1>1, <2>1, <2>2 DEF AdapterIdle
  <2>3. CASE AdapterWait
    <3>1. CASE engine_done
      <4>1. adapter_response'.error = IF engine_error THEN engine_error_code ELSE "ERR_NONE"
        BY <2>3, <3>1 DEF AdapterWait
      <4>2. adapter_response'.error # "ERR_DMA_BUSY"
        BY <3>1, <4>1
      <4>3. dma_state = "DMA_IDLE" /\ adapter_state' = "ADAPTER_RESPONSE" /\ ~CommandFire(command_valid)
        BY <2>3, <3>1 DEF AdapterWait
      <4> QED BY <1>1, <2>1, <4>2, <4>3
    <3>2. CASE ~engine_done
      BY <1>1, <2>1, <2>3, <3>2 DEF AdapterWait
    <3> QED BY <3>1, <3>2
  <2>4. CASE AdapterRespond(response_ready)
    BY <1>1, <2>1, <2>4 DEF AdapterRespond
  <2> QED BY <2>2, <2>3, <2>4 DEF SubsystemClock, AdapterClock
<1> QED BY <1>1, <1>2, <1>3 DEF DmaInv

\* The invariant is inductive.
LEMMA DmaInvInductive ==
  /\ SubsystemInit => DmaInv
  /\ DmaInv /\ [Next]_subsystemVars => DmaInv'
<1> USE DEF DmaInv, EngineCoherent, PulseIsFresh, OwnerWaits
<1>1. SubsystemInit => DmaInv
  <2> SUFFICES ASSUME SubsystemInit PROVE DmaInv
    OBVIOUS
  <2>1. EngineCoherent /\ PulseIsFresh
    BY DEF SubsystemInit, Engine!EngineInit
  <2>2. OwnerWaits
    BY DEF SubsystemInit, Engine!EngineInit, NullResponse
  <2> QED BY <2>1, <2>2
<1>2. ASSUME DmaInv, Ticks PROVE DmaInv'
  <2> USE <1>2
  <2>1. PICK ready \in BOOLEAN, response_ready \in BOOLEAN, rsp \in Answers :
          Cycle(ready, rsp, response_ready)
    BY DEF Ticks
  <2>2. PICK start_write \in BOOLEAN, command_valid \in BOOLEAN :
          \E direct \in IF start_write THEN Transfers ELSE {NoTransfer},
             command \in IF command_valid THEN Transfers ELSE {NoTransfer},
             command_id \in IF command_valid THEN CommandIds ELSE {0} :
            SubsystemClock(start_write, direct, command_valid, command_id, command,
                           ready, rsp, response_ready)
    BY <2>1 DEF Cycle
  <2> QED BY <2>2, ClockKeepsInv
<1>3. ASSUME DmaInv, SubsystemReset PROVE DmaInv'
  BY <1>3 DEF SubsystemReset, Engine!EngineReset, NullResponse
<1>4. ASSUME DmaInv, UNCHANGED subsystemVars PROVE DmaInv'
  BY <1>4 DEF subsystemVars, adapterVars, Engine!engineVars
<1> QED BY <1>1, <1>2, <1>3, <1>4 DEF Next

\* CompletionIsOwn of the specification: the done event completes a queued
\* command exactly when the finished transfer is the command's own.
THEOREM CompletionOwnership == FairSpec => []CompletionIsOwn
<1>1. DmaInv => CompletionIsOwn
  BY DEF DmaInv, EngineCoherent, OwnerWaits, CompletionIsOwn
<1> QED BY <1>1, DmaInvInductive, PTL DEF FairSpec

\* RejectionNeverMasksCompletion of the specification: no completed transfer
\* reports the DMA_BUSY of a rejected start as its own error.
THEOREM RejectionSeparate == FairSpec => []RejectionNeverMasksCompletion
<1>1. DmaInv => RejectionNeverMasksCompletion
  BY DEF DmaInv, EngineCoherent, OwnerWaits, RejectionNeverMasksCompletion
<1> QED BY <1>1, DmaInvInductive, PTL DEF FairSpec
=============================================================================
