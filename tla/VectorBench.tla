---------------------------- MODULE VectorBench -----------------------------
(***************************************************************************)
(* The tests of the vector accelerator (sim/verilator/vector_main.cpp).    *)
(* The operand values of the tests are those of Contents.                  *)
(***************************************************************************)
EXTENDS VectorAccelerator, AcceleratorBench

CONSTANTS
  kLane,           \* elements between two operands
  RandomLengths,   \* lengths test_random_operations draws from
  RandomConfigs    \* port configurations it draws from

kSource0Base == Spm.base
kSource1Base == Spm.base + kLane
kDestinationBase == Spm.base + 2 * kLane
kScalarAddress == Spm.base + 3 * kLane

Command(opcode, source0, source1, length, flags) ==
  [opcode |-> opcode, src0 |-> source0, src1 |-> source1, dst |-> kDestinationBase,
   length |-> length, signed |-> "SIGNED" \in flags, saturate |-> "SATURATE" \in flags]

Flags == SUBSET {"SIGNED", "SATURATE"}

\* The operands at their usual places.
Operation(opcode, length, flags) ==
  Command(opcode, kSource0Base,
          IF opcode = "SCALE" THEN kScalarAddress ELSE kSource1Base, length, flags)

----------------------------------------------------------------------------
(* Tests. *)

test_directed_operations ==
  <<[verify(Operation("ADD", 5, {"SIGNED"}), NoStalls) EXCEPT !.hold = TRUE],
    verify(Operation("ADD", 3, {"SIGNED", "SATURATE"}), NoStalls),
    verify(Operation("MULTIPLY", 4, {"SATURATE"}), NoStalls),
    verify(Operation("SCALE", 7, {"SIGNED", "SATURATE"}), NoStalls),
    verify(Operation("RELU", 5, {"SIGNED"}), NoStalls),
    verify(Operation("CLAMP", 5, {"SIGNED"}), NoStalls)>>

test_length_boundaries ==
  <<verify(Operation("RELU", 1, {}), NoStalls),
    verify(Operation("SCALE", MAX_VECTOR_LENGTH, {}), NoStalls)>>

Backpressure == PortConfig(3, 1, 2)

test_memory_backpressure == <<verify(Operation("ADD", 9, {}), Backpressure)>>

\* The port keeps the configuration of the test before.
test_error_paths ==
  <<reject(Operation("SUM", 4, {}), Backpressure, "ERR_OPCODE"),
    reject(Operation("ADD", 0, {}), Backpressure, "ERR_DIMENSION"),
    reject(Operation("ADD", MAX_VECTOR_LENGTH + 1, {}), Backpressure, "ERR_DIMENSION"),
    reject(Command("ADD", kSource0Base + 1, kSource1Base, 4, {}), Backpressure,
           "ERR_ADDRESS"),
    reject(Command("RELU", Spm.base + Spm.size - ELEMENTS_PER_WORD, kSource1Base, 3, {}),
           Backpressure, "ERR_SPM_BOUNDS"),
    fail_next(Operation("RELU", 4, {}), Backpressure, "any")>>

test_reset_during_operation ==
  <<reset_during(Operation("ADD", 16, {}), PortConfig(1, 0, 4))>>

\* Every opcode, flag and drawn length under every drawn configuration; the
\* scalar is at kSource1Base.
test_random_operations ==
  {<<verify(Command(opcode, kSource0Base, kSource1Base, length, flags), config)>> :
     opcode \in VectorOpcodes, length \in RandomLengths, flags \in Flags,
     config \in RandomConfigs}

run_performance ==
  {<<verify(Operation(o, 16, {}), NoStalls)>> : o \in {"ADD", "CLAMP"}}
  \cup {<<verify(Operation(o, 16, {"SATURATE"}), NoStalls)>> : o \in {"MULTIPLY", "SCALE"}}
  \cup {<<verify(Operation("RELU", 16, {"SIGNED"}), NoStalls)>>,
        <<verify(Operation("ADD", 16, {}), Backpressure)>>}

\* main: every test resets the fixture first.
Tests ==
  run_performance \cup test_random_operations
  \cup {test_directed_operations, test_length_boundaries, test_memory_backpressure,
        test_error_paths, test_reset_during_operation}

----------------------------------------------------------------------------
(* The fixture. *)

Dut == [idle |-> "VECTOR_IDLE", requests |-> RequestStates,
        responses |-> ReadStates \cup {"VECTOR_WRITE_RESPONSE"}, last |-> "VECTOR_RESPONSE"]

Request ==
  LET write == state = "VECTOR_WRITE_REQUEST"
  IN  [write |-> write,
       address |-> CASE write -> destination_address
                     [] state = "VECTOR_SOURCE0_REQUEST" -> source0_address
                     [] OTHER -> source1_address,
       strobe |-> IF write THEN current_write_strobe ELSE {},
       last |-> FALSE,
       wellformed |-> write => current_write_strobe # {}]

\* What a correct command of the given descriptor leaves and how many
\* requests it takes.
verify_operation ==
  LET command == call.command
      words == Storage(command.length) \div ELEMENTS_PER_WORD
      expected ==
        vector_operation(command.opcode, read_sources(command.src0, command.length),
                         read_sources(command.src1, command.length), before[command.src1],
                         command.signed, command.saturate)
  IN  /\ response = [error |-> "ERR_NONE", result |-> command.length]
      /\ completed = command.length
      /\ observed.writes = words
      /\ observed.reads = CASE command.opcode = "SCALE" -> words + 1
                            [] command.opcode = "RELU" -> words
                            [] OTHER -> 2 * words
      /\ read_elements(command.dst, command.length) = expected
      /\ PaddingKept(command.dst, command.length)

\* test_memory_backpressure looks at the stalls and the last strobe too.
Passes ==
  CASE call.procedure = "verify_operation" ->
         /\ verify_operation
         /\ test = test_memory_backpressure => observed.stalled /\ observed.strobe = {0}
    [] call.procedure = "expect_rejected" -> expect_rejected
    [] OTHER -> memory_error

Image ==
  IF call.procedure = "verify_operation"
    THEN fill(call.command.dst, Storage(call.command.length)) ELSE memory

BenchStep ==
  \/ Begin(Image) /\ UNCHANGED vectorVars
  \/ start_command(Dut, AcceptCommand(call.command))
  \/ tick(Dut, Request, RequestFire, ScalarRead \/ Source0Read \/ Source1Read \/ WordWritten,
          AccessFails, Execute, Wait)
  \/ hold_response(Dut, Wait)
  \/ finish_command(Dut, Respond, Passes)
  \/ tick_once(Dut, Wait)
  \/ reset(Dut, Reset)
  \/ Ended /\ UNCHANGED vectorVars
=============================================================================
