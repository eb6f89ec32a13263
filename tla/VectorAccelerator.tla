------------------------- MODULE VectorAccelerator --------------------------
(***************************************************************************)
(* The vector accelerator (rtl/accel/vector_alu/vector_accelerator.sv): for    *)
(* each word it reads one or two sources, computes the lanes and writes    *)
(* the result, after reading the scalar once for VECTOR_SCALE.             *)
(***************************************************************************)
EXTENDS AcceleratorCore

CONSTANT MAX_VECTOR_LENGTH

VectorParameters == MAX_VECTOR_LENGTH \in Nat \ {0}

VARIABLES
  source0_address, source1_address, destination_address,
  elements_remaining,
  source0_word, source1_word, scalar_element, result_word

vectorVars == <<source0_address, source1_address, destination_address,
                elements_remaining, source0_word, source1_word, scalar_element,
                result_word>>

addressVars == <<source0_address, source1_address, destination_address,
                 elements_remaining>>

vars == <<coreVars, vectorVars>>

VectorOpcodes == {"ADD", "MULTIPLY", "SCALE", "RELU", "CLAMP"}

vector_opcode_uses_source1(opcode) == opcode \in {"ADD", "MULTIPLY", "CLAMP"}

Arithmetic(opcode) == opcode \in {"ADD", "MULTIPLY", "SCALE"}

\* The calculation width holds every exact sum and product.
execute_element(lhs, rhs, command) ==
  LET l == Meaning(lhs, command.signed)
      r == Meaning(rhs, command.signed)
      value == CASE command.opcode = "ADD" -> l + r
                 [] command.opcode \in {"MULTIPLY", "SCALE"} -> l * r
                 [] command.opcode = "RELU" -> IF l < 0 THEN 0 ELSE l
                 [] OTHER -> IF l < 0 \/ r < 0 THEN 0 ELSE IF l > r THEN r ELSE l
  IN  Convert(value, command.signed, command.saturate /\ Arithmetic(command.opcode))

final_word == elements_remaining <= ELEMENTS_PER_WORD

current_word_elements == IF final_word THEN elements_remaining ELSE ELEMENTS_PER_WORD

current_write_strobe == {lane \in Lanes : lane < current_word_elements}

computed_word ==
  [lane \in Lanes |->
     IF lane \in current_write_strobe
       THEN execute_element(source0_word[lane],
                            IF active.opcode = "SCALE" THEN scalar_element
                            ELSE source1_word[lane],
                            active)
       ELSE 0]

\* Faulty variant: the second source is not checked.
Source1Unchecked(command) ==
  \/ ~scratchpad_range_is_legal(command.src0, Storage(command.length))
  \/ ~scratchpad_range_is_legal(command.dst, Storage(command.length))

\* Some operand, or the word of the scalar, leaves the scratchpad.
OutOfBounds(command) ==
  LET storage == Storage(command.length)
  IN  \/ ~scratchpad_range_is_legal(command.src0, storage)
      \/ ~scratchpad_range_is_legal(command.dst, storage)
      \/ /\ vector_opcode_uses_source1(command.opcode)
         /\ ~scratchpad_range_is_legal(command.src1, storage)
      \/ /\ command.opcode = "SCALE"
         /\ ~scratchpad_range_is_legal(command.src1, ELEMENTS_PER_WORD)

Misaligned(command) ==
  \/ ~address_is_word_aligned(command.src0)
  \/ ~address_is_word_aligned(command.dst)
  \/ /\ vector_opcode_uses_source1(command.opcode) \/ command.opcode = "SCALE"
     /\ ~address_is_word_aligned(command.src1)

\* The checks, in the order of their precedence.
command_validation_error(command) ==
  IF command.opcode \notin VectorOpcodes THEN "ERR_OPCODE"
  ELSE IF command.length \notin 1 .. MAX_VECTOR_LENGTH THEN "ERR_DIMENSION"
  ELSE IF Misaligned(command) THEN "ERR_ADDRESS"
  ELSE IF OutOfBounds(command) THEN "ERR_SPM_BOUNDS"
  ELSE "ERR_NONE"

----------------------------------------------------------------------------

RequestStates == {"VECTOR_SCALAR_REQUEST", "VECTOR_SOURCE0_REQUEST",
                  "VECTOR_SOURCE1_REQUEST", "VECTOR_WRITE_REQUEST"}

ReadStates == {"VECTOR_SCALAR_RESPONSE", "VECTOR_SOURCE0_RESPONSE",
               "VECTOR_SOURCE1_RESPONSE"}

Init ==
  /\ CoreInit("VECTOR_IDLE")
  /\ source0_address = 0
  /\ source1_address = 0
  /\ destination_address = 0
  /\ elements_remaining = 0
  /\ source0_word = ZeroWord
  /\ source1_word = ZeroWord
  /\ scalar_element = 0
  /\ result_word = ZeroWord

Reset ==
  /\ CoreReset("VECTOR_IDLE")
  /\ source0_address' = 0
  /\ source1_address' = 0
  /\ destination_address' = 0
  /\ elements_remaining' = 0
  /\ source0_word' = ZeroWord
  /\ source1_word' = ZeroWord
  /\ scalar_element' = 0
  /\ result_word' = ZeroWord

AcceptCommand(command) ==
  LET error == command_validation_error(command)
      first == IF command.opcode = "SCALE" THEN "VECTOR_SCALAR_REQUEST"
               ELSE "VECTOR_SOURCE0_REQUEST"
  IN  /\ Accept("VECTOR_IDLE", first, "VECTOR_RESPONSE", command, error)
      /\ IF error = "ERR_NONE"
           THEN /\ source0_address' = command.src0
                /\ source1_address' = command.src1
                /\ destination_address' = command.dst
                /\ elements_remaining' = command.length
           ELSE UNCHANGED addressVars
      /\ UNCHANGED <<source0_word, source1_word, scalar_element, result_word>>

Wait ==
  /\ Hold(RequestStates \cup ReadStates
            \cup {"VECTOR_IDLE", "VECTOR_WRITE_RESPONSE", "VECTOR_RESPONSE"})
  /\ UNCHANGED vectorVars

RequestFire ==
  /\ \/ Handshake("VECTOR_SCALAR_REQUEST", "VECTOR_SCALAR_RESPONSE")
     \/ Handshake("VECTOR_SOURCE0_REQUEST", "VECTOR_SOURCE0_RESPONSE")
     \/ Handshake("VECTOR_SOURCE1_REQUEST", "VECTOR_SOURCE1_RESPONSE")
     \/ Handshake("VECTOR_WRITE_REQUEST", "VECTOR_WRITE_RESPONSE")
  /\ UNCHANGED vectorVars

ScalarRead ==
  /\ Handshake("VECTOR_SCALAR_RESPONSE", "VECTOR_SOURCE0_REQUEST")
  /\ scalar_element' = Word(source1_address)[0]
  /\ UNCHANGED <<addressVars, source0_word, source1_word, result_word>>

Source0Read ==
  /\ Handshake("VECTOR_SOURCE0_RESPONSE",
               IF vector_opcode_uses_source1(active.opcode) THEN "VECTOR_SOURCE1_REQUEST"
               ELSE "VECTOR_EXECUTE")
  /\ source0_word' = Word(source0_address)
  /\ UNCHANGED <<addressVars, source1_word, scalar_element, result_word>>

Source1Read ==
  /\ Handshake("VECTOR_SOURCE1_RESPONSE", "VECTOR_EXECUTE")
  /\ source1_word' = Word(source1_address)
  /\ UNCHANGED <<addressVars, source0_word, scalar_element, result_word>>

Execute ==
  /\ Handshake("VECTOR_EXECUTE", "VECTOR_WRITE_REQUEST")
  /\ result_word' = computed_word
  /\ UNCHANGED <<addressVars, source0_word, source1_word, scalar_element>>

Written == Store(destination_address, result_word, current_write_strobe)

WordWritten ==
  /\ state = "VECTOR_WRITE_RESPONSE"
  /\ memory' = Written
  /\ IF final_word
       THEN /\ Finish("VECTOR_RESPONSE", "ERR_NONE", active.length, current_word_elements)
            /\ UNCHANGED addressVars
       ELSE /\ Proceed("VECTOR_SOURCE0_REQUEST", current_word_elements)
            /\ source0_address' = source0_address + ELEMENTS_PER_WORD
            /\ source1_address' = IF vector_opcode_uses_source1(active.opcode)
                                    THEN source1_address + ELEMENTS_PER_WORD
                                    ELSE source1_address
            /\ destination_address' = destination_address + ELEMENTS_PER_WORD
            /\ elements_remaining' = elements_remaining - ELEMENTS_PER_WORD
  /\ UNCHANGED <<source0_word, source1_word, scalar_element, result_word>>

\* Faulty variant: the elements of a failed write are reported as completed.
FailedWriteCounted ==
  /\ \/ MemoryError(ReadStates, "VECTOR_RESPONSE", {memory})
     \/ /\ state = "VECTOR_WRITE_RESPONSE"
        /\ memory' \in {memory, Written}
        /\ Finish("VECTOR_RESPONSE", "ERR_ADDRESS", 0, current_word_elements)
  /\ UNCHANGED vectorVars

AccessFails ==
  /\ \/ MemoryError(ReadStates, "VECTOR_RESPONSE", {memory})
     \/ MemoryError({"VECTOR_WRITE_RESPONSE"}, "VECTOR_RESPONSE", {memory, Written})
  /\ UNCHANGED vectorVars

Respond == Handshake("VECTOR_RESPONSE", "VECTOR_IDLE") /\ UNCHANGED vectorVars

\* Steps that need no new command and no stalled handshake.
Advance ==
  \/ RequestFire
  \/ ScalarRead
  \/ Source0Read
  \/ Source1Read
  \/ Execute
  \/ WordWritten
  \/ AccessFails
  \/ Respond

Next == (\E command \in Offered : AcceptCommand(command)) \/ Wait \/ Advance \/ Reset

\* The memory and the command processor do not stall for ever.
Spec == Init /\ [][Next]_vars /\ WF_vars(Advance)

----------------------------------------------------------------------------
(* Properties. *)

\* The exact value of one lane, as docs/vector_accelerator.md defines it.
ExactValue(lhs, rhs, command) ==
  LET l == Meaning(lhs, command.signed)
      r == Meaning(rhs, command.signed)
      AtLeastZero(n) == IF n > 0 THEN n ELSE 0
  IN  CASE command.opcode = "ADD" -> l + r
        [] command.opcode \in {"MULTIPLY", "SCALE"} -> l * r
        [] command.opcode = "RELU" -> AtLeastZero(l)
        [] OTHER -> AtLeastZero(IF l < r THEN l ELSE r)

IsResult(element, lhs, rhs, command) ==
  IsElementFor(element, ExactValue(lhs, rhs, command), command.signed,
               command.saturate /\ Arithmetic(command.opcode))

\* The right operand of element i, from the memory the command started with.
Operand(i) == CASE active.opcode = "SCALE" -> before[active.src1]
                [] active.opcode = "RELU" -> 0
                [] OTHER -> before[active.src1 + i]

\* Memory holds the first n results and is otherwise as before.
Prefix(n) ==
  \A a \in Space :
    IF a - active.dst \in 0 .. n - 1
      THEN IsResult(memory[a], before[active.src0 + a - active.dst],
                    Operand(a - active.dst), active)
      ELSE memory[a] = before[a]

\* No source word is overwritten before it is read: the destination is not
\* above a source it shares words with.
ForwardSafe ==
  LET Safe(source) == active.dst <= source \/ active.dst >= source + Storage(active.length)
  IN  /\ Safe(active.src0)
      /\ vector_opcode_uses_source1(active.opcode) => Safe(active.src1)

\* A command answered without error wrote every element, each the specified
\* one, and nothing else: no padding lane and no neighbouring word, in place
\* or not, and the events account for every element.
ResultExact ==
  state = "VECTOR_RESPONSE" /\ response.error = "ERR_NONE" =>
    /\ response.result = active.length
    /\ completed = active.length
    /\ ForwardSafe => Prefix(active.length)

\* A rejected command touches nothing; one that a memory error aborts leaves
\* the results committed so far, at most with the word whose write failed.
FailureKeepsPrefix ==
  state = "VECTOR_RESPONSE" /\ response.error # "ERR_NONE" =>
    \/ completed = 0 /\ memory = before
    \/ /\ response.error = "ERR_ADDRESS"
       /\ ForwardSafe =>
            \E n \in {completed, completed + current_word_elements} : Prefix(n)

\* Requests stay in the scratchpad (a_memory_access_in_scratchpad), the last
\* partial word included.
AccessInScratchpad ==
  state \in RequestStates =>
    scratchpad_range_is_legal(
      CASE state \in {"VECTOR_SCALAR_REQUEST", "VECTOR_SOURCE1_REQUEST"} -> source1_address
        [] state = "VECTOR_WRITE_REQUEST" -> destination_address
        [] OTHER -> source0_address,
      ELEMENTS_PER_WORD)
=============================================================================
