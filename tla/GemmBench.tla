----------------------------- MODULE GemmBench ------------------------------
(***************************************************************************)
(* The tests of the GEMM accelerator (sim/verilator/gemm_main.cpp).  The   *)
(* matrices of the tests are those of Contents.                            *)
(***************************************************************************)
EXTENDS GemmAccelerator, AcceleratorBench

CONSTANTS
  kLane,          \* elements between two matrices
  RandomShapes,   \* rows, columns and inner dimensions test_random_operations draws from
  RandomConfigs   \* port configurations it draws from

kMatrixABase == Spm.base
kMatrixBBase == Spm.base + kLane
kMatrixCBase == Spm.base + 2 * kLane

Command(opcode, matrix_a, matrix_c, rows, columns, inner, flags) ==
  [opcode |-> opcode, src0 |-> matrix_a, src1 |-> kMatrixBBase, dst |-> matrix_c,
   m |-> rows, n |-> columns, k |-> inner,
   signed |-> "SIGNED" \in flags, saturate |-> "SATURATE" \in flags]

Multiply(rows, columns, inner, flags) ==
  Command("GEMM", kMatrixABase, kMatrixCBase, rows, columns, inner, flags)

\* For every tile and inner index a column of A and a row of B.
expected_read_requests(rows, columns, inner) ==
  LET Tiles(size, tile) == {base \in 0 .. size - 1 : base % tile = 0}
  IN  MapThenSumSet(LAMBDA t : inner * (AtMost(TILE_M, rows - t[1])
                                          + AtMost(TILE_N, columns - t[2])),
                    Tiles(rows, TILE_M) \X Tiles(columns, TILE_N))

----------------------------------------------------------------------------
(* Tests. *)

test_directed_operations ==
  <<[verify(Multiply(1, 1, 1, {"SIGNED"}), NoStalls) EXCEPT !.hold = TRUE],
    verify(Multiply(2, 2, 2, {}), NoStalls),
    verify(Multiply(3, 4, 2, {"SIGNED"}), NoStalls),
    verify(Multiply(3, 2, 1, {}), NoStalls),
    verify(Multiply(3, 3, 3, {}), NoStalls),
    verify(Multiply(1, 1, 2, {}), NoStalls),
    verify(Multiply(1, 1, 2, {"SATURATE"}), NoStalls),
    verify(Multiply(1, 1, 2, {"SIGNED", "SATURATE"}), NoStalls)>>

test_maximum_dimensions == <<verify(Multiply(MAX_M, MAX_N, MAX_K, {}), NoStalls)>>

Backpressure == PortConfig(3, 1, 2)

test_tiling_and_backpressure == <<verify(Multiply(4, 4, 4, {}), Backpressure)>>

\* The port keeps the configuration of the test before.
test_error_paths ==
  <<reject(Command("ADD", kMatrixABase, kMatrixCBase, 2, 2, 2, {}), Backpressure,
           "ERR_OPCODE"),
    reject(Multiply(0, 2, 2, {}), Backpressure, "ERR_DIMENSION"),
    reject(Multiply(MAX_M + 1, 2, 2, {}), Backpressure, "ERR_DIMENSION"),
    reject(Command("GEMM", kMatrixABase + 1, kMatrixCBase, 2, 2, 2, {}), Backpressure,
           "ERR_ADDRESS"),
    reject(Command("GEMM", Spm.base + Spm.size - ELEMENTS_PER_WORD, kMatrixCBase, 2, 2, 2, {}),
           Backpressure, "ERR_SPM_BOUNDS"),
    reject(Command("GEMM", kMatrixABase, kMatrixABase, 2, 2, 2, {}), Backpressure,
           "ERR_ADDRESS"),
    fail_next(Multiply(2, 2, 2, {}), Backpressure, "read"),
    fail_next(Multiply(2, 2, 2, {}), Backpressure, "write")>>

test_reset_during_operation ==
  <<reset_during(Multiply(4, 4, 4, {}), PortConfig(1, 0, 4))>>

\* Every drawn shape and every flag under every drawn configuration.
test_random_operations ==
  {<<verify(Multiply(shape[1], shape[2], shape[3], flags), config)>> :
     shape \in RandomShapes, flags \in SUBSET {"SIGNED", "SATURATE"},
     config \in RandomConfigs}

run_performance ==
  {<<verify(Multiply(2, 2, 2, {}), NoStalls)>>, <<verify(Multiply(4, 4, 4, {}), NoStalls)>>,
   <<verify(Multiply(4, 4, 4, {}), Backpressure)>>}

\* main: every test resets the fixture first.
Tests ==
  run_performance \cup test_random_operations
  \cup {test_directed_operations, test_maximum_dimensions, test_tiling_and_backpressure,
        test_error_paths, test_reset_during_operation}

----------------------------------------------------------------------------
(* The fixture. *)

Dut == [idle |-> "GEMM_IDLE",
        requests |-> {"GEMM_READ_A_REQUEST", "GEMM_READ_B_REQUEST", "GEMM_WRITE_REQUEST"},
        responses |-> {"GEMM_READ_A_RESPONSE", "GEMM_READ_B_RESPONSE", "GEMM_WRITE_RESPONSE"},
        last |-> "GEMM_RESPONSE"]

\* req_last marks the write of the last output.
Request ==
  LET write == state = "GEMM_WRITE_REQUEST"
  IN  [write |-> write,
       address |-> current_word_address,
       strobe |-> IF write THEN {current_lane} ELSE {},
       last |-> write /\ outputs_written + 1 = active.m * active.n,
       wellformed |-> address_is_word_aligned(current_word_address)]

\* The product is stored, one write per output, the last one marked, and the
\* operands are read once per tile.
verify_operation ==
  LET command == call.command
      outputs == command.m * command.n
      expected ==
        gemm_operation(read_sources(command.src0, command.m * command.k),
                       read_sources(command.src1, command.k * command.n),
                       command.m, command.n, command.k, command.signed, command.saturate)
  IN  /\ response = [error |-> "ERR_NONE", result |-> outputs]
      /\ completed = outputs
      /\ observed.reads = expected_read_requests(command.m, command.n, command.k)
      /\ observed.writes = outputs
      /\ observed.last_writes = 1
      /\ read_elements(command.dst, outputs) = expected
      /\ PaddingKept(command.dst, outputs)

\* test_tiling_and_backpressure looks at the stalls and at the reuse of a tile.
Passes ==
  CASE call.procedure = "verify_operation" ->
         /\ verify_operation
         /\ test = test_tiling_and_backpressure =>
              observed.stalled /\ observed.reads < 2 * 4 * 4 * 4
    [] call.procedure = "expect_rejected" -> expect_rejected
    [] OTHER -> memory_error

Image ==
  IF call.procedure = "verify_operation"
    THEN fill(call.command.dst, CStorage(call.command)) ELSE memory

BenchStep ==
  \/ Begin(Image) /\ UNCHANGED gemmVars
  \/ start_command(Dut, AcceptCommand(call.command))
  \/ tick(Dut, Request, RequestFire, ElementOfARead \/ ElementOfBRead \/ OutputWritten,
          AccessFails, MultiplyAccumulate, Wait)
  \/ hold_response(Dut, Wait)
  \/ finish_command(Dut, Respond, Passes)
  \/ tick_once(Dut, Wait)
  \/ reset(Dut, Reset)
  \/ Ended /\ UNCHANGED gemmVars
=============================================================================
