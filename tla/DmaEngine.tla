----------------------------- MODULE DmaEngine ------------------------------
(***************************************************************************)
(* The DMA engine (rtl/dma/dma_engine.sv): one word at a time, a read      *)
(* request and response on the source port, then a write request and       *)
(* response on the destination port.  One step is one clock edge.  The     *)
(* memory ports are parameters: ready is the request handshake, rsp is     *)
(* NoResponse or a record with the error flag (and the word read).         *)
(***************************************************************************)
EXTENDS Integers

CONSTANTS
  DMA_DATA_BYTES,   \* bytes in a memory word
  MAX_BURST_BEATS,  \* beats between two req_last
  Regions,          \* data regions, as records of base and size
  Unwritten,        \* content of a datapath register before its first load
  NoResponse        \* a response port whose valid is low

ASSUME EngineAssumption ==
  /\ DMA_DATA_BYTES \in Nat \ {0}
  /\ MAX_BURST_BEATS \in Nat \ {0}
  /\ \A r \in Regions : r.base \in Nat /\ r.size \in Nat

VARIABLES
  dma_state,
  current_source_address, current_destination_address,
  bytes_remaining, read_data, burst_index,  \* datapath, not reset
  engine_busy,
  engine_done, engine_error, engine_error_code,  \* one-cycle events
  start_accepted, start_rejected,                \* one-cycle events
  bytes_read_event, bytes_written_event          \* one-cycle counts

datapathVars == <<current_source_address, current_destination_address,
                  bytes_remaining, read_data, burst_index>>

engineVars == <<dma_state, current_source_address, current_destination_address,
                bytes_remaining, read_data, burst_index, engine_busy, engine_done,
                engine_error, engine_error_code, start_accepted, start_rejected,
                bytes_read_event, bytes_written_event>>

----------------------------------------------------------------------------
(* Combinational functions. *)

address_in_region(address, region) ==
  address >= region.base /\ address < region.base + region.size

\* First and last byte lie in the same region.
data_range_is_legal(address, length) ==
  \/ length = 0
  \/ \E r \in Regions : /\ address_in_region(address, r)
                        /\ address_in_region(address + length - 1, r)

address_is_aligned(address) == address % DMA_DATA_BYTES = 0

\* A copy onto itself is not an overlap.
ranges_overlap(first, second, length) ==
  /\ length # 0
  /\ first # second
  /\ first < second + length
  /\ second < first + length

\* Faulty variant: the destination range is not checked.
DestinationUnchecked(source, destination, length) ==
  \/ ~address_is_aligned(source)
  \/ ~address_is_aligned(destination)
  \/ ~data_range_is_legal(source, length)
  \/ ranges_overlap(source, destination, length)

start_address_error(source, destination, length) ==
  \/ ~address_is_aligned(source)
  \/ ~address_is_aligned(destination)
  \/ ~data_range_is_legal(source, length)
  \/ ~data_range_is_legal(destination, length)
  \/ ranges_overlap(source, destination, length)

\* Faulty variant: one byte too many counts as the last beat.
LastBeatEarly == bytes_remaining <= DMA_DATA_BYTES + 1

last_beat == bytes_remaining <= DMA_DATA_BYTES

current_beat_bytes == IF last_beat THEN bytes_remaining ELSE DMA_DATA_BYTES

\* Faulty variant: a partial word is written whole.
WholeWordStrobe(byte_count) == 0 .. DMA_DATA_BYTES - 1

\* The byte lanes a write of byte_count bytes enables.
byte_strobe(byte_count) == {lane \in 0 .. DMA_DATA_BYTES - 1 : byte_count > lane}

\* Faulty variant: bursts are one beat too long.
BurstTooLong == burst_index = MAX_BURST_BEATS \/ last_beat

current_burst_last == burst_index = MAX_BURST_BEATS - 1 \/ last_beat

Rejected(start) == start /\ engine_busy

----------------------------------------------------------------------------

EngineInit ==
  /\ dma_state = "DMA_IDLE"
  /\ current_source_address = Unwritten
  /\ current_destination_address = Unwritten
  /\ bytes_remaining = Unwritten
  /\ read_data = Unwritten
  /\ burst_index = Unwritten
  /\ engine_busy = FALSE
  /\ engine_done = FALSE
  /\ engine_error = FALSE
  /\ engine_error_code = "ERR_NONE"
  /\ start_accepted = FALSE
  /\ start_rejected = FALSE
  /\ bytes_read_event = 0
  /\ bytes_written_event = 0

EngineReset ==
  /\ dma_state' = "DMA_IDLE"
  /\ engine_busy' = FALSE
  /\ engine_done' = FALSE
  /\ engine_error' = FALSE
  /\ engine_error_code' = "ERR_NONE"
  /\ start_accepted' = FALSE
  /\ start_rejected' = FALSE
  /\ bytes_read_event' = 0
  /\ bytes_written_event' = 0
  /\ UNCHANGED datapathVars

\* The event registers: all low unless this cycle raises them.  A start while
\* busy raises the error event on its own, whatever the transfer does.
Announce(start, finished, failed) ==
  /\ engine_done' = finished
  /\ engine_error' = (failed \/ Rejected(start))
  /\ engine_error_code' = IF failed THEN "ERR_ADDRESS"
                          ELSE IF Rejected(start) THEN "ERR_DMA_BUSY" ELSE "ERR_NONE"
  /\ start_rejected' = Rejected(start)

Enter(state) ==
  /\ dma_state' = state
  /\ engine_busy' = (state # "DMA_IDLE")

NoEvents == bytes_read_event' = 0 /\ bytes_written_event' = 0

Idle(start, source, destination, length) ==
  LET empty  == length = 0
      failed == start /\ ~empty /\ start_address_error(source, destination, length)
  IN  /\ dma_state = "DMA_IDLE"
      /\ start_accepted' = start
      /\ Announce(start, start /\ (empty \/ failed), failed)
      /\ IF start /\ ~empty /\ ~failed
           THEN /\ Enter("DMA_READ_REQUEST")
                /\ current_source_address' = source
                /\ current_destination_address' = destination
                /\ bytes_remaining' = length
                /\ burst_index' = 0
                /\ UNCHANGED read_data
           ELSE /\ Enter("DMA_IDLE")
                /\ UNCHANGED datapathVars
      /\ NoEvents

\* A request waits for its handshake, then for its response.
Request(state, next, start, ready) ==
  /\ dma_state = state
  /\ dma_state' = IF ready THEN next ELSE state
  /\ start_accepted' = FALSE
  /\ Announce(start, FALSE, FALSE)
  /\ NoEvents
  /\ UNCHANGED <<engine_busy, datapathVars>>

AwaitPort(state, start, rsp) ==
  /\ dma_state = state
  /\ rsp = NoResponse
  /\ start_accepted' = FALSE
  /\ Announce(start, FALSE, FALSE)
  /\ NoEvents
  /\ UNCHANGED <<dma_state, engine_busy, datapathVars>>

\* Faulty variant: a failed access is tried again.
PortRetry(state, start, rsp) ==
  /\ dma_state = state
  /\ rsp # NoResponse /\ rsp.error
  /\ dma_state' = "DMA_READ_REQUEST"
  /\ start_accepted' = FALSE
  /\ Announce(start, FALSE, FALSE)
  /\ NoEvents
  /\ UNCHANGED <<engine_busy, datapathVars>>

\* A response with an error ends the transfer on either port.
PortError(state, start, rsp) ==
  /\ dma_state = state
  /\ rsp # NoResponse /\ rsp.error
  /\ start_accepted' = FALSE
  /\ Announce(start, TRUE, TRUE)
  /\ Enter("DMA_IDLE")
  /\ NoEvents
  /\ UNCHANGED datapathVars

ReadDone(start, rsp) ==
  /\ dma_state = "DMA_READ_RESPONSE"
  /\ rsp # NoResponse /\ ~rsp.error
  /\ read_data' = rsp.data
  /\ bytes_read_event' = current_beat_bytes
  /\ bytes_written_event' = 0
  /\ dma_state' = "DMA_WRITE_REQUEST"
  /\ start_accepted' = FALSE
  /\ Announce(start, FALSE, FALSE)
  /\ UNCHANGED <<engine_busy, current_source_address, current_destination_address,
                 bytes_remaining, burst_index>>

WriteDone(start, rsp) ==
  /\ dma_state = "DMA_WRITE_RESPONSE"
  /\ rsp # NoResponse /\ ~rsp.error
  /\ bytes_written_event' = current_beat_bytes
  /\ bytes_read_event' = 0
  /\ start_accepted' = FALSE
  /\ Announce(start, last_beat, FALSE)
  /\ IF last_beat
       THEN /\ Enter("DMA_IDLE")
            /\ UNCHANGED datapathVars
       ELSE /\ Enter("DMA_READ_REQUEST")
            /\ current_source_address' = current_source_address + DMA_DATA_BYTES
            /\ current_destination_address' = current_destination_address + DMA_DATA_BYTES
            /\ bytes_remaining' = bytes_remaining - DMA_DATA_BYTES
            /\ burst_index' = IF current_burst_last THEN 0 ELSE burst_index + 1
            /\ UNCHANGED read_data

\* One clock edge.  The ports are those of soc_top: a direct or queued start
\* with its operands, and the two memory ports.
EngineClock(start, source, destination, length, src_ready, src_rsp, dst_ready, dst_rsp) ==
  \/ Idle(start, source, destination, length)
  \/ Request("DMA_READ_REQUEST", "DMA_READ_RESPONSE", start, src_ready)
  \/ AwaitPort("DMA_READ_RESPONSE", start, src_rsp)
  \/ PortError("DMA_READ_RESPONSE", start, src_rsp)
  \/ ReadDone(start, src_rsp)
  \/ Request("DMA_WRITE_REQUEST", "DMA_WRITE_RESPONSE", start, dst_ready)
  \/ AwaitPort("DMA_WRITE_RESPONSE", start, dst_rsp)
  \/ PortError("DMA_WRITE_RESPONSE", start, dst_rsp)
  \/ WriteDone(start, dst_rsp)

----------------------------------------------------------------------------
=============================================================================
