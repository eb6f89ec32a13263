------------------------------ MODULE DmaBench ------------------------------
(***************************************************************************)
(* The tests of the DMA engine (sim/verilator/dma_main.cpp): a fixture     *)
(* whose two memory ports block requests and delay responses by the cycle  *)
(* counter, and the directed, random and performance tests.  One step is   *)
(* one tick of the fixture or the code between two ticks.                  *)
(*                                                                         *)
(* A test is a sequence of transfers, each a record of what the test sets  *)
(* up and expects; a thrown expectation ends it in step "failed".  The     *)
(* lengths of the source are kept as multiples of a burst and of a word.   *)
(***************************************************************************)
EXTENDS DmaCopy, Sequences

CONSTANTS
  Spm, Dram,       \* the two regions
  RandomLengths,   \* lengths test_random_transfers draws from
  RandomPorts      \* port configurations it draws from

kMaximumTransferCycles == 4096
kDestinationSentinel == 165

VARIABLES
  test,                 \* transfers still to run; the first one is running
  step,                 \* where the procedure is; "open" outside the tests
  cycle,                \* cycle_ since the ports were configured
  source, destination,  \* PortState of the two ports
  observed              \* active and stalled cycles, req_last of each request

benchVars == <<test, step, cycle, source, destination, observed>>

----------------------------------------------------------------------------
(* Transfers as the tests describe them. *)

kWord == DMA_DATA_BYTES
kBurst == MAX_BURST_BEATS * DMA_DATA_BYTES

PortConfig(stall, modulus, residue, latency) ==
  [stall |-> stall, modulus |-> modulus, residue |-> residue, latency |-> latency]

NoStalls == PortConfig(0, 0, 0, 0)

\* No pattern is written and nothing is filled, the ports never stall.
transfer(src, dst, length) ==
  [procedure |-> "transfer", src |-> src, dst |-> dst, len |-> length,
   salt |-> 0, pattern |-> 0, fill |-> 0,
   source |-> NoStalls, destination |-> NoStalls, fail |-> "none", error |-> "ERR_NONE"]

\* The source holds a pattern, the destination and the word after it the sentinel.
copy(src, dst, length, salt) ==
  [transfer(src, dst, length) EXCEPT !.salt = salt, !.pattern = length,
                                     !.fill = length + kWord]

with_ports(t, src_config, dst_config) ==
  [t EXCEPT !.source = src_config, !.destination = dst_config]

reject(t) == [t EXCEPT !.error = "ERR_ADDRESS"]

call == Head(test)

make_pattern(index, salt) == (index * 37 + salt) % 256

\* The memory the test prepares.
Image ==
  [a \in Bytes |->
     IF a - call.src \in 0 .. call.pattern - 1 THEN make_pattern(a - call.src, call.salt)
     ELSE IF a - call.dst \in 0 .. call.fill - 1 THEN kDestinationSentinel ELSE mem[a]]

----------------------------------------------------------------------------
(* The ports. *)

PortState(fail) == [pending |-> FALSE, delay |-> 0, error |-> FALSE, data |-> 0, fail |-> fail]

request_ready(config) ==
  /\ cycle >= config.stall
  /\ config.modulus # 0 => (cycle - config.stall) % config.modulus # config.residue

\* The response this tick presents, if its delay has passed.
prepare_response(port) ==
  IF port.pending /\ port.delay = 0 THEN [error |-> port.error, data |-> port.data]
  ELSE NoResponse

\* The port after a tick without a new request: the response was taken or is
\* one tick nearer.
consume_response(port) ==
  IF port.pending /\ port.delay # 0 THEN [port EXCEPT !.delay = @ - 1]
  ELSE PortState(port.fail)

schedule_response(port, data, legal, latency) ==
  [pending |-> TRUE, delay |-> latency, error |-> port.fail \/ ~legal, data |-> data,
   fail |-> FALSE]

\* locate: a word lies in the memory image.
WordFits(address) == data_range_is_legal(address, kWord)

SourceFires == dma_state = "DMA_READ_REQUEST" /\ request_ready(call.source)
DestinationFires == dma_state = "DMA_WRITE_REQUEST" /\ request_ready(call.destination)

accept_source_request ==
  schedule_response(source, IF WordFits(current_source_address)
                              THEN Word(current_source_address) ELSE 0,
                    WordFits(current_source_address), call.source.latency)

\* The image is written now, unless the request is to fail.
accept_destination_request ==
  schedule_response(destination, 0, WordFits(current_destination_address),
                    call.destination.latency)

\* stalled_cycle after the edge, with the inputs driven before it.
Stalled ==
  CASE dma_state' = "DMA_READ_REQUEST" -> ~request_ready(call.source)
    [] dma_state' = "DMA_READ_RESPONSE" -> prepare_response(source) = NoResponse
    [] dma_state' = "DMA_WRITE_REQUEST" -> ~request_ready(call.destination)
    [] dma_state' = "DMA_WRITE_RESPONSE" -> prepare_response(destination) = NoResponse
    [] OTHER -> FALSE

Observe ==
  observed' =
    [active |-> observed.active + (IF engine_busy' THEN 1 ELSE 0),
     stalled |-> observed.stalled + (IF Stalled THEN 1 ELSE 0),
     source_last |-> IF SourceFires THEN Append(observed.source_last, current_burst_last)
                     ELSE observed.source_last,
     destination_last |->
       IF DestinationFires THEN Append(observed.destination_last, current_burst_last)
       ELSE observed.destination_last]

NothingObserved == [active |-> 0, stalled |-> 0, source_last |-> <<>>, destination_last |-> <<>>]

expect(condition, next) == step' = IF condition THEN next ELSE "failed"

\* One tick of the fixture, with the operands t on the start port.
tick(start, t) ==
  /\ EngineClock(start, t.src, t.dst, t.len,
                 request_ready(call.source), prepare_response(source),
                 request_ready(call.destination), prepare_response(destination))
  /\ source' = IF SourceFires THEN accept_source_request ELSE consume_response(source)
  /\ destination' = IF DestinationFires THEN accept_destination_request
                    ELSE consume_response(destination)
  /\ MemoryStep(DestinationFires /\ ~destination.fail)
  /\ HistoryStep(start, [src |-> t.src, dst |-> t.dst, len |-> t.len])
  /\ Observe
  /\ cycle' = cycle + 1

----------------------------------------------------------------------------
(* Procedures. *)

\* The test writes the memory, so the history of the copies starts anew.
Begin ==
  /\ step = "begin"
  /\ mem' = Image
  /\ before' = Image
  /\ xfer' = NoTransfer
  /\ accesses' = [read |-> 0, written |-> 0]
  /\ source' = PortState(call.fail = "source")
  /\ destination' = PortState(call.fail = "destination")
  /\ observed' = NothingObserved
  /\ cycle' = 0
  /\ step' = "start"
  /\ UNCHANGED <<engineVars, started, test>>

Start ==
  /\ step = "start"
  /\ tick(TRUE, call)
  /\ expect(start_accepted' /\ (call.procedure # "transfer" => engine_busy'), call.procedure)
  /\ UNCHANGED test

\* test_busy_rejection: a second start while the first transfer runs.
StartWhileBusy ==
  /\ step = "busy_rejection"
  /\ tick(TRUE, [call EXCEPT !.src = @ + kWord, !.dst = @ + kWord, !.len = kWord])
  /\ expect(/\ start_rejected' /\ engine_error' /\ engine_busy'
            /\ engine_error_code' = "ERR_DMA_BUSY", "transfer")
  /\ UNCHANGED test

\* test_reset_during_transfer: one tick, stalled, then reset.
TickBeforeReset ==
  /\ step = "reset_during_transfer"
  /\ tick(FALSE, call)
  /\ expect(engine_busy' /\ observed'.stalled > observed.stalled, "reset")
  /\ UNCHANGED test

Transfer ==
  /\ step = "transfer"
  /\ ~engine_done
  /\ tick(FALSE, call)
  /\ expect(cycle < kMaximumTransferCycles, step)
  /\ UNCHANGED test

Return(condition) ==
  /\ test' = Tail(test)
  /\ expect(condition, IF Len(test) = 1 THEN "passed" ELSE "begin")

reset ==
  /\ step = "reset"
  /\ CopyReset
  /\ source' = PortState(FALSE)
  /\ destination' = PortState(FALSE)
  /\ observed' = NothingObserved
  /\ cycle' = 0
  /\ Return(/\ ~engine_busy' /\ ~engine_done' /\ ~engine_error'
            /\ dma_state' = "DMA_IDLE"
            /\ mem = before)

expect_success ==
  LET requests == (call.len + kWord - 1) \div kWord
  IN  /\ ~engine_error
      /\ engine_error_code = "ERR_NONE"
      /\ accesses = [read |-> call.len, written |-> call.len]
      /\ Len(observed.source_last) = requests
      /\ Len(observed.destination_last) = requests

\* The data arrived and the word after it is untouched.
DataMatches ==
  \A i \in 0 .. call.len + kWord - 1 :
    IF i < call.len THEN mem[call.dst + i] = before[call.src + i]
    ELSE i < call.fill => mem[call.dst + i] = kDestinationSentinel

\* req_last at the end of a burst and of the transfer, as
\* test_partial_and_bursts expects; here of every transfer.
BurstsMatch ==
  LET expected_last == [beat \in 1 .. (call.len + kWord - 1) \div kWord |->
                          beat % MAX_BURST_BEATS = 0 \/ beat * kWord >= call.len]
  IN  observed.source_last = expected_last /\ observed.destination_last = expected_last

\* A blocking port extends the active time, as test_backpressure expects;
\* here of every transfer through a port that blocks and delays.
StallsShow ==
  observed.stalled # 0 /\ observed.active > Len(observed.source_last) * 4

\* A rejected transfer accesses nothing; a failed one stops at the failure.
expect_failure ==
  /\ engine_error
  /\ engine_error_code = call.error
  /\ Len(observed.source_last) = IF call.fail = "none" THEN 0 ELSE 1
  /\ Len(observed.destination_last) = IF call.fail = "destination" THEN 1 ELSE 0
  /\ accesses.written = 0
  /\ mem = before

Blocks(config) == config.modulus # 0 /\ config.latency > 1

Finish ==
  /\ step = "transfer"
  /\ engine_done
  /\ Return(IF call.error = "ERR_NONE"
              THEN /\ expect_success
                   /\ DataMatches
                   /\ BurstsMatch
                   /\ Blocks(call.source) \/ Blocks(call.destination) => StallsShow
              ELSE expect_failure)
  /\ UNCHANGED <<copyVars, cycle, source, destination, observed>>

Ended == step \in {"passed", "failed"} /\ UNCHANGED <<copyVars, benchVars>>

BenchStep ==
  \/ Begin \/ Start \/ StartWhileBusy \/ TickBeforeReset \/ Transfer \/ Finish \/ reset
  \/ Ended

----------------------------------------------------------------------------
(* Tests. *)

spm(offset) == Spm.base + offset
dram(offset) == Dram.base + offset

test_one_word == <<copy(dram(4), spm(8), kWord, 17)>>

test_partial_and_bursts == <<copy(dram(4), spm(8), kBurst + kWord - 1, 41)>>

kSourceStalls == PortConfig(0, 3, 0, 2)
kDestinationStalls == PortConfig(0, 4, 1, 3)

test_backpressure ==
  <<with_ports(copy(dram(0), spm(0), 2 * kBurst, 67), kSourceStalls, NoStalls),
    with_ports(copy(dram(16), spm(16), 2 * kBurst, 87), NoStalls, kDestinationStalls)>>

\* Zero length; unaligned; outside the regions; across the scratchpad's end.
test_zero_and_illegal ==
  <<transfer(Dram.base + Dram.size, Dram.base + Dram.size, 0),
    reject(transfer(dram(1), spm(0), kWord)),
    reject(transfer(Dram.base + Dram.size, spm(0), kWord)),
    reject(transfer(dram(0), Spm.base + Spm.size - kWord, kWord + 1))>>

test_memory_errors ==
  <<reject([copy(dram(4), spm(8), kWord, 113) EXCEPT !.fail = "source"]),
    reject([copy(dram(4), spm(8), kWord, 113) EXCEPT !.fail = "destination"])>>

test_busy_rejection ==
  <<[copy(dram(0), spm(0), 4 * kBurst, 131) EXCEPT
       !.procedure = "busy_rejection", !.source = PortConfig(5, 0, 0, 1)]>>

test_reset_during_transfer ==
  <<[copy(dram(0), spm(0), kBurst, 143) EXCEPT
       !.procedure = "reset_during_transfer", !.source = PortConfig(0, 1, 0, 0)]>>

test_back_to_back_and_memory_copy ==
  <<copy(spm(0), dram(0), kBurst - kWord, 149),
    copy(dram(0), dram(20), 2 * kBurst - kWord, 167),
    copy(spm(0), spm(20), kBurst + kWord, 185)>>

test_overlap_semantics ==
  LET window == [transfer(dram(0), dram(kWord), 2 * kBurst) EXCEPT
                   !.salt = 203, !.pattern = 2 * kBurst + 2 * kWord]
  IN  <<reject(window), reject(transfer(dram(kWord), dram(0), 2 * kBurst)),
        transfer(dram(0), dram(0), 2 * kBurst)>>

test_random_transfers ==
  {<<with_ports(copy(s, d + 20, length, 1), src_config, dst_config)>> :
     s \in {dram(0), spm(0)}, d \in {dram(0), spm(0)}, length \in RandomLengths,
     src_config \in RandomPorts, dst_config \in RandomPorts}

run_performance ==
  <<copy(dram(0), spm(0), kWord, 193),
    copy(dram(0), spm(0), kBurst, 194),
    copy(dram(0), spm(0), 4 * kBurst, 195),
    with_ports(copy(dram(0), spm(0), 4 * kBurst, 196), kSourceStalls, kDestinationStalls),
    copy(dram(0), dram(20), kBurst, 197)>>

run_directed ==
  test_one_word \o test_partial_and_bursts \o test_backpressure \o test_zero_and_illegal
  \o test_memory_errors \o test_busy_rejection \o test_reset_during_transfer
  \o test_back_to_back_and_memory_copy \o test_overlap_semantics

Tests == {run_directed, run_performance} \cup test_random_transfers

BenchInit(tests) ==
  /\ test \in tests
  /\ step = "begin"
  /\ cycle = 0
  /\ source = PortState(FALSE)
  /\ destination = PortState(FALSE)
  /\ observed = NothingObserved

----------------------------------------------------------------------------
(* Together with the open environment of DmaCopy. *)

NoTest ==
  /\ test = <<>>
  /\ step = "open"
  /\ cycle = 0
  /\ source = PortState(FALSE)
  /\ destination = PortState(FALSE)
  /\ observed = NothingObserved

Init == CopyInit /\ (NoTest \/ BenchInit(Tests))

Open(Step) == step = "open" /\ Step /\ UNCHANGED benchVars

Next == Open(CopyNext) \/ BenchStep

vars == <<copyVars, benchVars>>

\* The memory does not stall for ever, and the test program runs on.
Spec == Init /\ [][Next]_vars /\ WF_vars(Open(MemoryAnswers)) /\ WF_vars(BenchStep)

\* Every test of dma_main.cpp passes, for every drawn length, region, latency
\* and blocking pattern: each transfer copies its bytes and nothing else with
\* the promised requests and burst ends, errors stop it where they occur, and
\* a start while busy disturbs nothing.
DmaTestsPass == step # "open" ~> step = "passed"

----------------------------------------------------------------------------
(* The instance checked: two regions behind a gap, two-byte words, bursts   *)
(* of two beats.                                                            *)

MCSpm == [base |-> 0, size |-> 40]
MCDram == [base |-> 42, size |-> 40]
MCRegions == {MCSpm, MCDram}

T(s, d, n) == [src |-> s, dst |-> d, len |-> n]

\* Whole and partial words, several beats, self-copy, zero length; then
\* misaligned, out of a region, across its end, and overlapping operands.
MCTransfers == {T(36, 42, 4), T(42, 36, 3), T(44, 42, 2), T(42, 42, 5), T(36, 38, 0),
                T(42, 38, 1), T(37, 42, 2), T(40, 42, 2), T(36, 44, 5), T(42, 44, 3),
                T(42, 36, 5)}

MCRandomPorts ==
  {PortConfig(s, m, r, l) : s \in {0, 2}, m \in {2, 5}, r \in {0, 1}, l \in {0, 3}}
=============================================================================
