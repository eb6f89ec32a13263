---------------------------- MODULE RegisterBlock ---------------------------
(***************************************************************************)
(* The control registers behind the AXI-Lite port                          *)
(* (rtl/regs/soc_register_block.sv, offsets and bits of reg_pkg.sv).  A    *)
(* word is the set of its one bits; a strobe is the set of byte lanes.     *)
(* One step is one clock edge, of two records of inputs: bus, what the     *)
(* AXI-Lite manager drives, and in, what the rest of the SoC drives.       *)
(***************************************************************************)
EXTENDS Integers, FiniteSetsExt

CONSTANT None   \* a channel without a valid item

VARIABLES
  aw, w,               \* write address and write data latched
  b, r,                \* responses offered to the manager
  regs,                \* stored registers
  perf_clear, dma_start, irq_clear,          \* one-cycle pulses
  error_status, dma_sticky, cmd_sticky,      \* sticky status
  cmd_valid,           \* a command is offered to the queue
  perf_snapshot_high   \* high half of the counter last read

registerVars == <<aw, w, b, r, regs, perf_clear, dma_start, irq_clear, error_status,
                  dma_sticky, cmd_sticky, cmd_valid, perf_snapshot_high>>

----------------------------------------------------------------------------
(* Words. *)

BITS_PER_BYTE == 8
Lanes == 0 .. 3

\* A number as a word, and the number in the bits from lsb on.
ToBits(n) == {i \in 0 .. 15 : (n \div 2^i) % 2 = 1}
ShiftLeft(bits, lsb) == {i + lsb : i \in bits}
Field(bits, lsb) == MapThenSumSet(LAMBDA i : 2^(i - lsb), {i \in bits : i >= lsb})

Strobed(bits, strobe) == {i \in bits : i \div BITS_PER_BYTE \in strobe}

merge_by_strobe(old, new, strobe) == (old \ Strobed(old, strobe)) \cup Strobed(new, strobe)

----------------------------------------------------------------------------
(* The register map. *)

CTRL_ENABLE == 0
CTRL_PERF_CLEAR == 1
CTRL_PRIORITY_POLICY == 2
TIMER_ENABLE == 0
TIMER_PERIODIC == 1
TIMER_INTERVAL_LSB == 8
DMA_CTRL_START == 0
DMA_CTRL_IRQ_ENABLE == 1
SCHED_POLICY == 0
CMD_SUBMIT == 0

IRQ_DMA_DONE == 0
IRQ_CMD_DONE == 1
IRQ_ACCEL_DONE == 2
IRQ_ERROR == 3
IRQ_TIMER == 4
IRQ_SOURCES == 0 .. 4

\* Width of each field of a command descriptor.
CommandFields ==
  [REG_CMD_OPCODE |-> 4, REG_CMD_SRC0_ADDR |-> 32, REG_CMD_SRC1_ADDR |-> 32,
   REG_CMD_DST_ADDR |-> 32, REG_CMD_LEN |-> 16, REG_CMD_M |-> 8, REG_CMD_N |-> 8,
   REG_CMD_K |-> 8, REG_CMD_FLAGS |-> 8, REG_CMD_PRIORITY |-> 3, REG_CMD_ID |-> 16]

StoredOffsets ==
  {"REG_CTRL", "REG_IRQ_ENABLE", "REG_TIMER_CTRL", "REG_DMA_SRC_ADDR", "REG_DMA_DST_ADDR",
   "REG_DMA_LEN_BYTES", "REG_DMA_CTRL", "REG_PERF_SELECT", "REG_SCHED_CTRL"}
  \cup DOMAIN CommandFields

is_read_only_offset ==
  {"REG_SOC_ID", "REG_VERSION", "REG_STATUS", "REG_TIMER_VALUE", "REG_PERF_VALUE",
   "REG_PERF_VALUE_HI", "REG_QUEUE_STATUS"}

is_write_only_offset == {"REG_CMD_SUBMIT"}

is_legal_offset ==
  StoredOffsets \cup is_read_only_offset \cup is_write_only_offset
  \cup {"REG_IRQ_STATUS", "REG_DMA_STATUS", "REG_CMD_STATUS", "REG_ERROR_STATUS"}

is_valid_opcode(opcode) == opcode \in 1 .. 9

\* The descriptor on the command port, read live from the registers.
Descriptor == [f \in DOMAIN CommandFields |-> {i \in regs[f] : i < CommandFields[f]}]

global_enable == CTRL_ENABLE \in regs["REG_CTRL"]
scheduler_priority_mode == SCHED_POLICY \in regs["REG_SCHED_CTRL"]
irq_enable == regs["REG_IRQ_ENABLE"] \cap IRQ_SOURCES
dma_irq_enable == DMA_CTRL_IRQ_ENABLE \in regs["REG_DMA_CTRL"]
perf_select == Field({i \in regs["REG_PERF_SELECT"] : i < 4}, 0)

timer_config ==
  [enable |-> TIMER_ENABLE \in regs["REG_TIMER_CTRL"],
   periodic |-> TIMER_PERIODIC \in regs["REG_TIMER_CTRL"],
   interval |-> Field(regs["REG_TIMER_CTRL"], TIMER_INTERVAL_LSB)]

----------------------------------------------------------------------------
(* Writes. *)

\* Faulty variant: an address is taken while another waits for its data.
AddressAlwaysTaken == b = None

awready == aw = None /\ b = None
wready == w = None /\ b = None
arready == r = None

write_execute == aw # None /\ w # None /\ b = None

write_active_data == Strobed(w.data, w.strobe)

Submits == aw = "REG_CMD_SUBMIT" /\ CMD_SUBMIT \in write_active_data

\* Faulty variant: a submission is staged whatever the state of the queue.
SubmissionAlwaysFits(in) ==
  CASE aw \notin is_legal_offset -> "ERR_ILLEGAL_MMIO"
    [] aw \in is_read_only_offset -> "ERR_READ_ONLY"
    [] Submits /\ ~is_valid_opcode(Field(Descriptor["REG_CMD_OPCODE"], 0)) -> "ERR_OPCODE"
    [] OTHER -> "ERR_NONE"

write_error(in) ==
  LET taken == cmd_valid \/ in.queue_full \/ in.cmd_full
  IN  CASE aw \notin is_legal_offset -> "ERR_ILLEGAL_MMIO"
        [] aw \in is_read_only_offset -> "ERR_READ_ONLY"
        [] /\ aw = "REG_DMA_CTRL" /\ DMA_CTRL_START \in write_active_data
           /\ in.dma_busy -> "ERR_DMA_BUSY"
        [] Submits /\ taken -> "ERR_QUEUE_FULL"
        [] Submits /\ ~taken /\ ~is_valid_opcode(Field(Descriptor["REG_CMD_OPCODE"], 0)) ->
             "ERR_OPCODE"
        [] OTHER -> "ERR_NONE"

\* A write that is in error has no side effect.
write_side_effect(in) == write_execute /\ write_error(in) = "ERR_NONE"
Writes(offset, in) == write_side_effect(in) /\ aw = offset

\* Faulty variant: the policy bit of CTRL does not reach SCHED_CTRL.
PolicyNotMirrored(in) ==
  regs' = IF write_side_effect(in) /\ aw \in StoredOffsets
            THEN [regs EXCEPT ![aw] = merge_by_strobe(@, w.data, w.strobe)
                                        \ (CASE aw = "REG_CTRL" -> {CTRL_PERF_CLEAR}
                                             [] aw = "REG_DMA_CTRL" -> {DMA_CTRL_START}
                                             [] OTHER -> {})]
            ELSE regs

\* The policy bit exists twice; a write of either register sets both.
WriteRegisters(in) ==
  LET merged == merge_by_strobe(regs[aw], w.data, w.strobe)
      with(bits, bit, present) == IF present THEN bits \cup {bit} ELSE bits \ {bit}
      mirror == 0 \in w.strobe
  IN  regs' =
        IF ~(write_side_effect(in) /\ aw \in StoredOffsets) THEN regs
        ELSE CASE aw = "REG_CTRL" ->
                    [regs EXCEPT
                       !["REG_CTRL"] = merged \ {CTRL_PERF_CLEAR},
                       !["REG_SCHED_CTRL"] =
                         IF mirror THEN with(@, SCHED_POLICY, CTRL_PRIORITY_POLICY \in w.data)
                         ELSE @]
               [] aw = "REG_SCHED_CTRL" ->
                    [regs EXCEPT
                       !["REG_SCHED_CTRL"] = merged,
                       !["REG_CTRL"] =
                         IF mirror THEN with(@, CTRL_PRIORITY_POLICY, SCHED_POLICY \in w.data)
                         ELSE @]
               [] aw = "REG_DMA_CTRL" -> [regs EXCEPT ![aw] = merged \ {DMA_CTRL_START}]
               [] OTHER -> [regs EXCEPT ![aw] = merged]

WritePulses(in) ==
  /\ perf_clear' = (Writes("REG_CTRL", in) /\ CTRL_PERF_CLEAR \in write_active_data)
  /\ dma_start' = (Writes("REG_DMA_CTRL", in) /\ DMA_CTRL_START \in write_active_data)
  /\ irq_clear' = IF Writes("REG_IRQ_STATUS", in) THEN write_active_data \cap IRQ_SOURCES
                  ELSE {}

\* Bits of a status register, by their numbers in it.
DMA_STATUS_BUSY == 0
DMA_STATUS_DONE == 1
DMA_STATUS_ERROR == 2
CMD_STATUS_DONE == 0
CMD_STATUS_ERROR == 1
CMD_STATUS_FULL == 2
CMD_STATUS_EMPTY == 3
CMD_STATUS_PENDING == 4

Cleared(offset, in) == IF Writes(offset, in) THEN write_active_data ELSE {}

Bit(bit, condition) == IF condition THEN {bit} ELSE {}

\* An event in the cycle of its clear is kept.
StickyStatus(in) ==
  /\ dma_sticky' = (dma_sticky \ Cleared("REG_DMA_STATUS", in))
                     \cup Bit(DMA_STATUS_DONE, in.dma_done)
                     \cup Bit(DMA_STATUS_ERROR, in.dma_error)
  /\ cmd_sticky' = (cmd_sticky \ Cleared("REG_CMD_STATUS", in))
                     \cup Bit(CMD_STATUS_DONE, in.rsp # None)
                     \cup Bit(CMD_STATUS_ERROR, in.rsp \notin {None, "ERR_NONE"})

\* Numbers of the error codes, which are their bits in ERROR_STATUS.
ErrorBit ==
  [ERR_ILLEGAL_MMIO |-> 1, ERR_READ_ONLY |-> 2, ERR_DMA_BUSY |-> 3, ERR_DMA_LENGTH |-> 4,
   ERR_ADDRESS |-> 5, ERR_QUEUE_FULL |-> 6, ERR_OPCODE |-> 7, ERR_DIMENSION |-> 8,
   ERR_SPM_BOUNDS |-> 9, ERR_INTERNAL |-> 15]

error_code_mask(code) == IF code \in DOMAIN ErrorBit THEN {ErrorBit[code]} ELSE {}

CommandStaging(in) ==
  cmd_valid' = (\/ Writes("REG_CMD_SUBMIT", in) /\ CMD_SUBMIT \in write_active_data
                \/ cmd_valid /\ ~in.cmd_ready)

----------------------------------------------------------------------------
(* Reads. *)

read_register(offset, in) ==
  CASE offset \in StoredOffsets \ {"REG_IRQ_ENABLE"} -> regs[offset]
    [] offset = "REG_IRQ_ENABLE" -> irq_enable
    [] offset = "REG_SOC_ID" -> in.soc_id
    [] offset = "REG_VERSION" -> in.version
    [] offset = "REG_STATUS" -> {0} \cup Bit(1, in.soc_busy) \cup Bit(2, error_status # {})
    [] offset = "REG_IRQ_STATUS" -> in.irq_pending
    [] offset = "REG_TIMER_VALUE" -> ToBits(in.timer_value)
    [] offset = "REG_DMA_STATUS" -> Bit(DMA_STATUS_BUSY, in.dma_busy) \cup dma_sticky
    [] offset = "REG_CMD_STATUS" ->
         cmd_sticky \cup Bit(CMD_STATUS_FULL, in.queue_full)
           \cup Bit(CMD_STATUS_EMPTY, in.occupancy = 0) \cup Bit(CMD_STATUS_PENDING, cmd_valid)
    [] offset = "REG_PERF_VALUE" -> in.perf_low
    [] offset = "REG_PERF_VALUE_HI" -> perf_snapshot_high
    [] offset = "REG_ERROR_STATUS" -> error_status
    [] offset = "REG_QUEUE_STATUS" ->
         ToBits(in.occupancy) \cup ShiftLeft(ToBits(in.high_water), 8)
           \cup Bit(16, in.queue_full) \cup Bit(17, in.occupancy = 0)

ReadLegal(offset) == offset \in is_legal_offset \ is_write_only_offset

read_result(offset, in) ==
  IF ReadLegal(offset) THEN [data |-> read_register(offset, in), resp |-> "OKAY"]
  ELSE [data |-> {}, resp |-> "SLVERR"]

read_execute(bus) == bus.ar # None /\ arready

\* Faulty variant: the high half is kept when it is read itself.
SnapshotAtHighRead(bus, in) ==
  perf_snapshot_high' = IF read_execute(bus) /\ bus.ar = "REG_PERF_VALUE_HI" THEN in.perf_high
                        ELSE perf_snapshot_high

\* The high half of the counter is kept when its low half is read.
Snapshot(bus, in) ==
  perf_snapshot_high' = IF read_execute(bus) /\ bus.ar = "REG_PERF_VALUE" THEN in.perf_high
                        ELSE perf_snapshot_high

Errors(bus, in) ==
  error_status' =
    (error_status \ Cleared("REG_ERROR_STATUS", in))
      \cup in.hardware_error_set
      \cup (IF write_execute THEN error_code_mask(write_error(in)) ELSE {})
      \cup (IF read_execute(bus) /\ ~ReadLegal(bus.ar)
              THEN error_code_mask("ERR_ILLEGAL_MMIO") ELSE {})
      \cup (IF in.dma_error THEN error_code_mask("ERR_INTERNAL") ELSE {})
      \cup (IF in.rsp # None THEN error_code_mask(in.rsp) ELSE {})

----------------------------------------------------------------------------

RegisterInit ==
  /\ aw = None
  /\ w = None
  /\ b = None
  /\ r = None
  /\ regs = [offset \in StoredOffsets |-> {}]
  /\ perf_clear = FALSE
  /\ dma_start = FALSE
  /\ irq_clear = {}
  /\ error_status = {}
  /\ dma_sticky = {}
  /\ cmd_sticky = {}
  /\ cmd_valid = FALSE
  /\ perf_snapshot_high = {}

RegisterReset ==
  /\ aw' = None
  /\ w' = None
  /\ b' = None
  /\ r' = None
  /\ regs' = [offset \in StoredOffsets |-> {}]
  /\ perf_clear' = FALSE
  /\ dma_start' = FALSE
  /\ irq_clear' = {}
  /\ error_status' = {}
  /\ dma_sticky' = {}
  /\ cmd_sticky' = {}
  /\ cmd_valid' = FALSE
  /\ perf_snapshot_high' = {}

Channels(bus, in) ==
  /\ aw' = CASE write_execute -> None
             [] bus.aw # None /\ awready -> bus.aw
             [] OTHER -> aw
  /\ w' = CASE write_execute -> None
            [] bus.w # None /\ wready -> bus.w
            [] OTHER -> w
  /\ b' = CASE write_execute -> IF write_error(in) = "ERR_NONE" THEN "OKAY" ELSE "SLVERR"
            [] b # None /\ bus.bready -> None
            [] OTHER -> b
  /\ r' = CASE read_execute(bus) -> read_result(bus.ar, in)
            [] r # None /\ bus.rready -> None
            [] OTHER -> r

RegisterClock(bus, in) ==
  /\ Channels(bus, in)
  /\ WriteRegisters(in)
  /\ WritePulses(in)
  /\ StickyStatus(in)
  /\ Errors(bus, in)
  /\ CommandStaging(in)
  /\ Snapshot(bus, in)
=============================================================================
