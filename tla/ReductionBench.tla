--------------------------- MODULE ReductionBench ---------------------------
(***************************************************************************)
(* The tests of the reduction accelerator                                  *)
(* (sim/verilator/reduction_main.cpp).  The operand values of the tests    *)
(* are those of Contents.                                                  *)
(***************************************************************************)
EXTENDS ReductionAccelerator, AcceleratorBench

CONSTANTS
  kLane,           \* elements between the source and the destination
  RandomLengths,   \* lengths test_random_operations draws from
  RandomConfigs    \* port configurations it draws from

kSourceBase == Spm.base
kDestinationBase == Spm.base + kLane

Command(opcode, source, length, flags) ==
  [opcode |-> opcode, src0 |-> source, dst |-> kDestinationBase, length |-> length,
   signed |-> "SIGNED" \in flags, saturate |-> "SATURATE" \in flags]

Operation(opcode, length, flags) == Command(opcode, kSourceBase, length, flags)

----------------------------------------------------------------------------
(* Tests. *)

test_directed_operations ==
  <<[verify(Operation("SUM", 1, {"SIGNED"}), NoStalls) EXCEPT !.hold = TRUE],
    verify(Operation("SUM", 5, {"SIGNED"}), NoStalls),
    verify(Operation("SUM", 8, {}), NoStalls),
    verify(Operation("SUM", 2, {}), NoStalls),
    verify(Operation("SUM", 2, {"SATURATE"}), NoStalls),
    verify(Operation("SUM", 2, {"SIGNED", "SATURATE"}), NoStalls),
    verify(Operation("MAX", 5, {"SIGNED"}), NoStalls),
    verify(Operation("MAX", 4, {}), NoStalls)>>

test_maximum_length == <<verify(Operation("MAX", MAX_REDUCTION_LENGTH, {}), NoStalls)>>

Backpressure == PortConfig(3, 1, 2)

test_memory_backpressure == <<verify(Operation("SUM", 9, {}), Backpressure)>>

\* The port keeps the configuration of the test before.
test_error_paths ==
  <<reject(Operation("ADD", 4, {}), Backpressure, "ERR_OPCODE"),
    reject(Operation("SUM", 0, {}), Backpressure, "ERR_DIMENSION"),
    reject(Operation("SUM", MAX_REDUCTION_LENGTH + 1, {}), Backpressure, "ERR_DIMENSION"),
    reject(Command("SUM", kSourceBase + 1, 4, {}), Backpressure, "ERR_ADDRESS"),
    reject(Command("SUM", Spm.base + Spm.size - ELEMENTS_PER_WORD, 3, {}), Backpressure,
           "ERR_SPM_BOUNDS"),
    fail_next(Operation("SUM", 4, {}), Backpressure, "read"),
    fail_next(Operation("SUM", 4, {}), Backpressure, "write")>>

test_reset_during_operation ==
  <<reset_during(Operation("SUM", 16, {}), PortConfig(1, 0, 4))>>

\* Every opcode, flag and drawn length under every drawn configuration.
test_random_operations ==
  {<<verify(Operation(opcode, length, flags), config)>> :
     opcode \in ReductionOpcodes, length \in RandomLengths,
     flags \in SUBSET {"SIGNED", "SATURATE"}, config \in RandomConfigs}

run_performance ==
  {<<verify(Operation(o, 16, {}), NoStalls)>> : o \in {"SUM", "MAX"}}
  \cup {<<verify(Operation("SUM", 16, {}), Backpressure)>>}

\* main: every test resets the fixture first.
Tests ==
  run_performance \cup test_random_operations
  \cup {test_directed_operations, test_maximum_length, test_memory_backpressure,
        test_error_paths, test_reset_during_operation}

----------------------------------------------------------------------------
(* The fixture. *)

Dut == [idle |-> "REDUCTION_IDLE", requests |-> RequestStates,
        responses |-> ResponseStates, last |-> "REDUCTION_RESPONSE"]

Request ==
  LET write == state = "REDUCTION_WRITE_REQUEST"
  IN  [write |-> write,
       address |-> IF write THEN destination_address ELSE source_address,
       strobe |-> IF write THEN {0} ELSE {},
       last |-> FALSE,
       wellformed |-> TRUE]

\* The result is reported and stored, with one read per word and one write.
verify_operation ==
  LET command == call.command
      expected ==
        reduction_operation(command.opcode, read_sources(command.src0, command.length),
                            command.signed, command.saturate)
  IN  /\ response = [error |-> "ERR_NONE", result |-> expected]
      /\ completed = command.length
      /\ observed.reads = Storage(command.length) \div ELEMENTS_PER_WORD
      /\ observed.writes = 1
      /\ memory[command.dst] = expected
      /\ PaddingKept(command.dst, 1)

\* test_memory_backpressure looks at the stalls too.
Passes ==
  CASE call.procedure = "verify_operation" ->
         /\ verify_operation
         /\ test = test_memory_backpressure => observed.stalled
    [] call.procedure = "expect_rejected" -> expect_rejected
    [] OTHER -> memory_error

Image ==
  IF call.procedure = "verify_operation"
    THEN fill(call.command.dst, ELEMENTS_PER_WORD) ELSE memory

BenchStep ==
  \/ Begin(Image) /\ UNCHANGED reductionVars
  \/ start_command(Dut, AcceptCommand(call.command))
  \/ tick(Dut, Request, RequestFire, WordRead \/ ResultWritten, AccessFails, Accumulate, Wait)
  \/ hold_response(Dut, Wait)
  \/ finish_command(Dut, Respond, Passes)
  \/ tick_once(Dut, Wait)
  \/ reset(Dut, Reset)
  \/ Ended /\ UNCHANGED reductionVars
=============================================================================
