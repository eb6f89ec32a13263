-------------------------- MODULE AcceleratorBench --------------------------
(***************************************************************************)
(* The fixture of the accelerator tests: vector_main.cpp, and the same     *)
(* class in reduction_main.cpp and gemm_main.cpp, and the C++ reference    *)
(* models (models/cpp) the tests take their expectations from.  One step   *)
(* is one tick of the fixture or a procedure call between two ticks.       *)
(*                                                                         *)
(* A test is a sequence of calls, each a record that names the procedure,  *)
(* the descriptor, the port configuration and what the test expects.  A    *)
(* thrown expectation ends the test in step "failed".  Left out: names and *)
(* identifiers of commands, cycle counts (printed only) and the timeout.   *)
(***************************************************************************)
EXTENDS AcceleratorCore

CONSTANT kDestinationSentinel  \* element: what the output holds before a command

\* Every ready_block_modulus of the tests divides it: cycle_ is kept modulo it.
kCyclePeriod == 12

VARIABLES
  test,      \* calls still to run; the first one is running
  step,      \* where the procedure is
  cycle,     \* cycle_
  port,      \* PortState
  observed   \* what the fixture saw of the running command

benchVars == <<test, step, cycle, port, observed>>

----------------------------------------------------------------------------
(* Calls. *)

\* PortConfig: the request port blocks when cycle_ % modulus = residue.
PortConfig(modulus, residue, latency) ==
  [modulus |-> modulus, residue |-> residue, latency |-> latency]

NoStalls == PortConfig(0, 0, 0)

\* run_command, the output compared with the reference model.
verify(command, config) ==
  [procedure |-> "verify_operation", command |-> command, config |-> config,
   fail |-> "none", hold |-> FALSE, error |-> "ERR_NONE"]

reject(command, config, error) ==
  [verify(command, config) EXCEPT !.procedure = "expect_rejected", !.error = error]

\* The next request of a kind fails.
fail_next(command, config, kind) ==
  [verify(command, config) EXCEPT !.procedure = "memory_error", !.fail = kind,
                                  !.error = "ERR_ADDRESS"]

reset_during(command, config) ==
  [verify(command, config) EXCEPT !.procedure = "reset_during_operation"]

call == Head(test)

----------------------------------------------------------------------------
(* Scratchpad image. *)

read_elements(address, count) == [index \in 1 .. count |-> memory[address + index - 1]]

\* The image at the start of a command.
read_sources(address, count) == [index \in 1 .. count |-> before[address + index - 1]]

fill(address, length) ==
  [a \in Space |-> IF a - address \in 0 .. length - 1 THEN kDestinationSentinel
                   ELSE memory[a]]

\* The padding after count elements in their storage is still the sentinel.
PaddingKept(address, count) ==
  \A a \in address + count .. address + Storage(count) - 1 :
    memory[a] = kDestinationSentinel

----------------------------------------------------------------------------
(* The memory port. *)

Idle(fail) == [pending |-> FALSE, delay |-> 0, error |-> FALSE, fail |-> fail]

NothingObserved ==
  [reads |-> 0, writes |-> 0, last_writes |-> 0, strobe |-> {}, stalled |-> FALSE,
   done |-> FALSE, held |-> [error |-> "ERR_NONE", result |-> 0]]

request_ready ==
  call.config.modulus # 0 => cycle % call.config.modulus # call.config.residue

\* stalled_cycle after the edge, with the inputs the tick drove before it.
Stalls(dut) ==
  \/ state' \in dut.requests /\ ~request_ready
  \/ state' \in dut.responses
  \/ state' = dut.last

\* The end of a tick: the counters, from the outputs after the edge.
Clock(dut, seen) ==
  /\ cycle' = (cycle + 1) % kCyclePeriod
  /\ observed' = [seen EXCEPT !.stalled = @ \/ Stalls(dut), !.done = @ \/ done']

expect(condition, next) == step' = IF condition THEN next ELSE "failed"

\* The image is read or written now, unless the request is to fail or leaves
\* the scratchpad; one response is outstanding at most.
accept_request(dut, request) ==
  LET fails == port.fail \in {"any", IF request.write THEN "write" ELSE "read"}
      legal == scratchpad_range_is_legal(request.address, ELEMENTS_PER_WORD)
      one   == [n \in BOOLEAN |-> IF n THEN 1 ELSE 0]
  IN  /\ port' = [pending |-> TRUE, delay |-> call.config.latency,
                  error |-> fails \/ ~legal, fail |-> IF fails THEN "none" ELSE port.fail]
      /\ Clock(dut, [observed EXCEPT
                       !.reads = @ + one[~request.write], !.writes = @ + one[request.write],
                       !.last_writes = @ + one[request.write /\ request.last],
                       !.strobe = IF request.write THEN request.strobe ELSE @])
      /\ expect(~port.pending /\ request.wellformed, step)

\* A tick while a command executes: the port decides whether its request is
\* taken or its response is there, the accelerator does the rest.
tick(dut, request, RequestFire, Answer, Fail, Compute, Wait) ==
  /\ step = "finish_command"
  /\ \/ /\ state \in dut.requests /\ request_ready
        /\ RequestFire
        /\ accept_request(dut, request)
     \/ /\ state \in dut.requests /\ ~request_ready
        /\ Wait
        /\ Clock(dut, observed) /\ UNCHANGED <<port, step>>
     \/ /\ state \in dut.responses /\ port.delay > 0
        /\ Wait
        /\ port' = [port EXCEPT !.delay = @ - 1]
        /\ Clock(dut, observed) /\ UNCHANGED step
     \/ /\ state \in dut.responses /\ port.delay = 0
        /\ \/ ~port.error /\ Answer
           \/ port.error /\ Fail /\ memory' = memory
        /\ port' = Idle(port.fail)
        /\ Clock(dut, observed)
        /\ expect(port.pending, step)
     \/ Compute /\ Clock(dut, observed) /\ UNCHANGED <<port, step>>
  /\ UNCHANGED test

----------------------------------------------------------------------------
(* Procedures. *)

BenchInit(tests) ==
  /\ test \in tests
  /\ step = "begin"
  /\ cycle = 2
  /\ port = Idle("none")
  /\ observed = NothingObserved

\* A call starts: verify_operation writes the operands and the sentinel.
Begin(image) ==
  /\ step = "begin"
  /\ memory' = image
  /\ port' = Idle(call.fail)
  /\ observed' = NothingObserved
  /\ step' = "start_command"
  /\ UNCHANGED <<state, active, response, done, completed_event, before, completed,
                 accepted, test, cycle>>

start_command(dut, AcceptCommand) ==
  /\ step = "start_command"
  /\ AcceptCommand
  /\ Clock(dut, observed)
  /\ expect(state = dut.idle,
            IF call.procedure = "reset_during_operation" THEN "tick" ELSE "finish_command")
  /\ UNCHANGED <<test, port>>

\* The call is over; the next one of the test starts.
Return(condition) ==
  /\ test' = Tail(test)
  /\ expect(condition, IF Len(test) = 1 THEN "passed" ELSE "begin")

\* finish_command sees the response and, if told so, holds it for two ticks.
hold_response(dut, Wait) ==
  /\ state = dut.last
  /\ Wait
  /\ \/ /\ step = "finish_command" /\ call.hold
        /\ Clock(dut, [observed EXCEPT !.held = response])
        /\ expect(observed.done, "held")
     \/ /\ step = "held"
        /\ Clock(dut, observed)
        /\ step' = "held twice"
  /\ UNCHANGED <<test, port>>

\* finish_command takes the response and the procedure checks what it got.
finish_command(dut, Respond, condition) ==
  /\ state = dut.last
  /\ step = IF call.hold THEN "held twice" ELSE "finish_command"
  /\ Respond
  /\ Clock(dut, observed)
  /\ Return(/\ observed.done
            /\ call.hold => response = observed.held
            /\ condition)
  /\ UNCHANGED port

\* test_reset_during_operation: the port never takes the first request.
tick_once(dut, Wait) ==
  /\ step = "tick"
  /\ Wait
  /\ Clock(dut, observed)
  /\ expect(state # dut.idle, "reset")
  /\ UNCHANGED <<test, port>>

reset(dut, Reset) ==
  /\ step = "reset"
  /\ Reset
  /\ cycle' = 2
  /\ port' = Idle("none")
  /\ observed' = NothingObserved
  /\ Return(state' = dut.idle)

\* The test has ended; the fixture does nothing more.
Ended == step \in {"passed", "failed"} /\ UNCHANGED <<benchVars, coreVars>>

\* A rejected command answers its error and issues no memory traffic.
expect_rejected ==
  /\ response.error = call.error
  /\ response.result = 0
  /\ observed.reads = 0
  /\ observed.writes = 0

\* A memory error aborts the command; a failed read comes before any write.
memory_error ==
  /\ response.error = call.error
  /\ observed.writes = IF call.fail = "write" THEN 1 ELSE 0

----------------------------------------------------------------------------
(* The C++ reference models the tests compare the accelerators with        *)
(* (models/cpp): vectors and matrices are sequences of elements.  A sum    *)
(* that C++ keeps in 64 bits is exact.  The exceptions for arguments that  *)
(* no caller passes (empty or mismatched vectors) are left out.            *)

kModulus == 2 ^ ELEMENT_WIDTH
kSignBit == 2 ^ (ELEMENT_WIDTH - 1)

\* Faulty variant: the most negative element is taken for a positive one.
SignBitMissed(value) == IF value <= kSignBit THEN value ELSE value - kModulus

signed_element(value) == IF value < kSignBit THEN value ELSE value - kModulus

signed_result(value, saturate) ==
  (IF saturate THEN Max({Min({value, kSignBit - 1}), -kSignBit}) ELSE value) % kModulus

unsigned_result(value, saturate) ==
  IF saturate /\ value > kModulus - 1 THEN kModulus - 1 ELSE value % kModulus

vector_element(opcode, lhs, rhs, signed_mode, saturate) ==
  IF signed_mode
    THEN LET l == signed_element(lhs)
             r == signed_element(rhs)
         IN  CASE opcode = "ADD" -> signed_result(l + r, saturate)
               [] opcode \in {"MULTIPLY", "SCALE"} -> signed_result(l * r, saturate)
               [] opcode = "RELU" -> signed_result(Max({l, 0}), FALSE)
               [] opcode = "CLAMP" ->
                    IF l < 0 \/ r < 0 THEN 0 ELSE signed_result(Min({l, r}), FALSE)
    ELSE CASE opcode = "ADD" -> unsigned_result(lhs + rhs, saturate)
           [] opcode \in {"MULTIPLY", "SCALE"} -> unsigned_result(lhs * rhs, saturate)
           [] opcode = "RELU" -> lhs
           [] opcode = "CLAMP" -> Min({lhs, rhs})

vector_operation(opcode, source0, source1, scalar, signed_mode, saturate) ==
  [index \in DOMAIN source0 |->
     vector_element(opcode, source0[index],
                    CASE opcode = "SCALE" -> scalar
                      [] opcode = "RELU" -> 0
                      [] OTHER -> source1[index],
                    signed_mode, saturate)]

reduction_operation(opcode, source, signed_mode, saturate) ==
  CASE opcode = "SUM" /\ signed_mode ->
         signed_result(MapThenSumSet(LAMBDA i : signed_element(source[i]), DOMAIN source),
                       saturate)
    [] opcode = "SUM" /\ ~signed_mode ->
         unsigned_result(MapThenSumSet(LAMBDA i : source[i], DOMAIN source), saturate)
    [] opcode = "MAX" /\ signed_mode ->
         signed_result(Max({signed_element(source[i]) : i \in DOMAIN source}), FALSE)
    [] opcode = "MAX" /\ ~signed_mode -> Max({source[i] : i \in DOMAIN source})

\* Rows and columns count from zero; element (row, column) of a matrix of n
\* columns is number row * n + column + 1 of its sequence.
gemm_operation(matrix_a, matrix_b, rows, columns, inner, signed_mode, saturate) ==
  LET A(row, index) == matrix_a[row * inner + index + 1]
      B(index, column) == matrix_b[index * columns + column + 1]
      Output(row, column) ==
        IF signed_mode
          THEN signed_result(
                 MapThenSumSet(LAMBDA l : signed_element(A(row, l))
                                            * signed_element(B(l, column)),
                               0 .. inner - 1), saturate)
          ELSE unsigned_result(
                 MapThenSumSet(LAMBDA l : A(row, l) * B(l, column), 0 .. inner - 1), saturate)
  IN  [o \in 1 .. rows * columns |-> Output((o - 1) \div columns, (o - 1) % columns)]
=============================================================================
