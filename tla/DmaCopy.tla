------------------------------ MODULE DmaCopy -------------------------------
(***************************************************************************)
(* The DMA engine against a byte memory: what a transfer does to memory.   *)
(* The memory answers after any delay and may fail any request; a write    *)
(* takes effect when its request is accepted, one that fails may not.      *)
(* History variables record the memory and the operands at the start of    *)
(* the last transfer.                                                      *)
(***************************************************************************)
EXTENDS DmaEngine

CONSTANTS
  Transfers,     \* operands a start may carry
  MaxTransfers   \* bound on the number of started transfers

\* The operand registers are unsigned; the base addresses and sizes of the
\* data regions (soc_pkg.sv) are whole words.
ASSUME CopyAssumption ==
  /\ \A t \in Transfers : t.src \in Nat /\ t.dst \in Nat /\ t.len \in Nat
  /\ \A r \in Regions : address_is_aligned(r.base) /\ address_is_aligned(r.size)

VARIABLES
  mem,        \* byte memory over all regions
  before,     \* history: mem when the last transfer started
  xfer,       \* history: operands of the last accepted start
  accesses,   \* history: bytes reported by the read and write events
  started     \* history: number of accepted starts

copyVars == <<engineVars, mem, before, xfer, accesses, started>>

Bytes == UNION {r.base .. r.base + r.size - 1 : r \in Regions}

\* The word at an address, as the read port returns it.
Word(address) == [lane \in 0 .. DMA_DATA_BYTES - 1 |-> mem[address + lane]]

\* The lanes enabled by the strobe are replaced by the write data.
Store(address, data, strobe) ==
  [a \in Bytes |-> IF a - address \in strobe THEN data[a - address] ELSE mem[a]]

NoTransfer == [src |-> 0, dst |-> 0, len |-> 0]

CopyInit ==
  /\ EngineInit
  /\ mem = [a \in Bytes |-> a]
  /\ before = mem
  /\ xfer = NoTransfer
  /\ accesses = [read |-> 0, written |-> 0]
  /\ started = 0

\* Memory after the write request the engine makes.
Stored == Store(current_destination_address, read_data, byte_strobe(current_beat_bytes))

\* Memory follows an accepted write request; the history follows the starts.
MemoryStep(stored) ==
  mem' = IF dma_state = "DMA_WRITE_REQUEST" /\ stored THEN Stored ELSE mem

HistoryStep(start, t) ==
  LET fresh == start /\ dma_state = "DMA_IDLE"
  IN  /\ before' = IF fresh THEN mem ELSE before
      /\ xfer' = IF fresh THEN t ELSE xfer
      /\ started' = IF fresh THEN started + 1 ELSE started
      /\ accesses' = [read |-> (IF fresh THEN 0 ELSE accesses.read) + bytes_read_event',
                      written |-> (IF fresh THEN 0 ELSE accesses.written)
                                    + bytes_written_event']

ReadResponses == {NoResponse} \cup
  IF dma_state = "DMA_READ_RESPONSE"
    THEN {[error |-> TRUE], [error |-> FALSE, data |-> Word(current_source_address)]}
    ELSE {}

\* A write that did not take effect is answered with an error.
WriteResponses == {NoResponse} \cup
  IF dma_state = "DMA_WRITE_RESPONSE"
    THEN {[error |-> e] : e \in {TRUE} \cup {mem # Stored}} ELSE {}

CopyClock(start, ready, src_rsp, dst_rsp) ==
  \E t \in IF start THEN Transfers ELSE {NoTransfer}, stored \in {ready} \cup {FALSE} :
    /\ start => started < MaxTransfers
    /\ EngineClock(start, t.src, t.dst, t.len, ready, src_rsp, ready, dst_rsp)
    /\ MemoryStep(stored)
    /\ HistoryStep(start, t)

CopyReset ==
  /\ EngineReset
  /\ before' = mem
  /\ xfer' = NoTransfer
  /\ accesses' = [read |-> 0, written |-> 0]
  /\ UNCHANGED <<mem, started>>

CopyNext ==
  \/ \E start, ready \in BOOLEAN, src_rsp \in ReadResponses, dst_rsp \in WriteResponses :
       CopyClock(start, ready, src_rsp, dst_rsp)
  \/ CopyReset

CopySpec == CopyInit /\ [][CopyNext]_copyVars

\* The memory accepts every request and answers it.
MemoryAnswers ==
  \E start \in BOOLEAN, src_rsp \in ReadResponses, dst_rsp \in WriteResponses :
    /\ engine_busy
    /\ dma_state = "DMA_READ_RESPONSE" => src_rsp # NoResponse
    /\ dma_state = "DMA_WRITE_RESPONSE" => dst_rsp # NoResponse
    /\ CopyClock(start, TRUE, src_rsp, dst_rsp)

----------------------------------------------------------------------------

\* The bytes of the running transfer whose write was accepted.
Copied == xfer.len - bytes_remaining
            + IF dma_state = "DMA_WRITE_RESPONSE" THEN current_beat_bytes ELSE 0

\* Memory after the first n bytes of the transfer were copied.
PrefixCopied(n) ==
  [a \in Bytes |-> IF a \in xfer.dst .. xfer.dst + n - 1
                     THEN before[xfer.src + a - xfer.dst] ELSE before[a]]

\* In every cycle of a transfer memory is the old memory with exactly the
\* accepted prefix copied, without the last word if its write is failing: no
\* byte outside the destination range is touched, not even by the partial
\* last word or by a transfer that fails half-way.
CopyExact ==
  engine_busy => \/ mem = PrefixCopied(Copied)
                 \/ /\ dma_state = "DMA_WRITE_RESPONSE"
                    /\ mem = PrefixCopied(xfer.len - bytes_remaining)

\* A transfer reported done without error copied all its bytes and the events
\* account for each of them; a rejected or failed one copied only a prefix.
DoneMeansCopied ==
  engine_done =>
    IF engine_error THEN \E n \in 0 .. xfer.len : mem = PrefixCopied(n)
    ELSE /\ mem = PrefixCopied(xfer.len)
         /\ accesses = [read |-> xfer.len, written |-> xfer.len]

\* The bytes from first on, count of them, lie in the range.
Within(first, count, base, length) == base <= first /\ first + count <= base + length

\* The read port only ever addresses whole words inside a region, and what is
\* used of a word lies in the transfer's source range: of a partial last word
\* only the first bytes do, the rest is read and dropped.  The write port only
\* ever writes bytes of the transfer's destination range
\* (a_read_within_remaining_length, a_write_within_remaining_length).
RequestsInBounds ==
  /\ dma_state \in {"DMA_READ_REQUEST", "DMA_READ_RESPONSE"} =>
       /\ data_range_is_legal(current_source_address, DMA_DATA_BYTES)
       /\ Within(current_source_address, current_beat_bytes, xfer.src, xfer.len)
  /\ dma_state \in {"DMA_WRITE_REQUEST", "DMA_WRITE_RESPONSE"} =>
       /\ data_range_is_legal(current_destination_address, current_beat_bytes)
       /\ Within(current_destination_address, current_beat_bytes, xfer.dst, xfer.len)

\* A transfer that was started ends, unless reset ends it.
TransferEnds == engine_busy ~> ~engine_busy
=============================================================================
