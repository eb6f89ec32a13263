------------------------ MODULE ReductionAccelerator ------------------------
(***************************************************************************)
(* The reduction accelerator                                               *)
(* (rtl/accel/reduction/reduction_accelerator.sv): it accumulates the sum  *)
(* or the maximum of a packed source word by word and writes one element.  *)
(***************************************************************************)
EXTENDS AcceleratorCore

CONSTANTS
  ACCUM_WIDTH,           \* bits in the accumulator
  MAX_REDUCTION_LENGTH

\* validate_parameters: ACCUM_WIDTH is at least REQUIRED_SUM_WIDTH, the element
\* width plus the bits that count the elements.
ReductionParameters ==
  /\ MAX_REDUCTION_LENGTH \in Nat \ {0}
  /\ ACCUM_WIDTH \in Nat /\ ACCUM_WIDTH - ELEMENT_WIDTH \in Nat
  /\ 2 ^ (ACCUM_WIDTH - ELEMENT_WIDTH) >= MAX_REDUCTION_LENGTH

VARIABLES
  source_address, destination_address, elements_remaining,
  source_word, accumulator, result_word

addressVars == <<source_address, destination_address, elements_remaining>>

reductionVars == <<source_address, destination_address, elements_remaining, source_word,
                   accumulator, result_word>>

vars == <<coreVars, reductionVars>>

ReductionOpcodes == {"SUM", "MAX"}

\* accum_t and its signed reading.
Accum(value) == value % 2 ^ ACCUM_WIDTH
SignedAccum(value) ==
  IF value < 2 ^ (ACCUM_WIDTH - 1) THEN value ELSE value - 2 ^ ACCUM_WIDTH

convert_sum(value, command) ==
  Convert(IF command.signed THEN SignedAccum(value) ELSE value,
          command.signed, command.saturate)

final_word == elements_remaining <= ELEMENTS_PER_WORD

current_word_elements == IF final_word THEN elements_remaining ELSE ELEMENTS_PER_WORD

\* The smallest element, which fills unused lanes of the maximum tree.
LeastElement(use_signed) == IF use_signed THEN Modulus \div 2 ELSE 0

Greater(lhs, rhs) == Meaning(lhs, active.signed) > Meaning(rhs, active.signed)

ValidLanes == {lane \in Lanes : lane < current_word_elements}

\* The outputs of the two trees over the lanes of the word.
word_sum ==
  Accum(SumFunction([lane \in ValidLanes |-> Accum(Meaning(source_word[lane], active.signed))]))

word_maximum ==
  LET leaves == {IF lane \in ValidLanes THEN source_word[lane]
                 ELSE LeastElement(active.signed) : lane \in Lanes}
  IN  CHOOSE e \in leaves : \A f \in leaves : ~Greater(f, e)

next_accumulator ==
  IF active.opcode = "SUM" THEN Accum(accumulator + word_sum)
  ELSE IF Greater(word_maximum, accumulator % Modulus) THEN word_maximum
  ELSE accumulator

reduced_element ==
  IF active.opcode = "SUM" THEN convert_sum(next_accumulator, active)
  ELSE next_accumulator % Modulus

OutOfBounds(command) ==
  \/ ~scratchpad_range_is_legal(command.src0, Storage(command.length))
  \/ ~scratchpad_range_is_legal(command.dst, ELEMENTS_PER_WORD)

command_validation_error(command) ==
  IF command.opcode \notin ReductionOpcodes THEN "ERR_OPCODE"
  ELSE IF command.length \notin 1 .. MAX_REDUCTION_LENGTH THEN "ERR_DIMENSION"
  ELSE IF \E address \in {command.src0, command.dst} : ~address_is_word_aligned(address)
    THEN "ERR_ADDRESS"
  ELSE IF OutOfBounds(command) THEN "ERR_SPM_BOUNDS"
  ELSE "ERR_NONE"

----------------------------------------------------------------------------

RequestStates == {"REDUCTION_READ_REQUEST", "REDUCTION_WRITE_REQUEST"}
ResponseStates == {"REDUCTION_READ_RESPONSE", "REDUCTION_WRITE_RESPONSE"}

Init ==
  /\ CoreInit("REDUCTION_IDLE")
  /\ source_address = 0
  /\ destination_address = 0
  /\ elements_remaining = 0
  /\ source_word = ZeroWord
  /\ accumulator = 0
  /\ result_word = ZeroWord

Reset ==
  /\ CoreReset("REDUCTION_IDLE")
  /\ source_address' = 0
  /\ destination_address' = 0
  /\ elements_remaining' = 0
  /\ source_word' = ZeroWord
  /\ accumulator' = 0
  /\ result_word' = ZeroWord

\* The accumulator starts below every element.
AcceptCommand(command) ==
  LET error == command_validation_error(command)
  IN  /\ Accept("REDUCTION_IDLE", "REDUCTION_READ_REQUEST", "REDUCTION_RESPONSE",
                command, error)
      /\ IF error = "ERR_NONE"
           THEN /\ source_address' = command.src0
                /\ destination_address' = command.dst
                /\ elements_remaining' = command.length
                /\ accumulator' =
                     IF command.opcode = "MAX" /\ command.signed THEN Modulus \div 2 ELSE 0
           ELSE UNCHANGED <<addressVars, accumulator>>
      /\ UNCHANGED <<source_word, result_word>>

Wait ==
  /\ Hold(RequestStates \cup ResponseStates \cup {"REDUCTION_IDLE", "REDUCTION_RESPONSE"})
  /\ UNCHANGED reductionVars

RequestFire ==
  /\ \/ Handshake("REDUCTION_READ_REQUEST", "REDUCTION_READ_RESPONSE")
     \/ Handshake("REDUCTION_WRITE_REQUEST", "REDUCTION_WRITE_RESPONSE")
  /\ UNCHANGED reductionVars

WordRead ==
  /\ Handshake("REDUCTION_READ_RESPONSE", "REDUCTION_ACCUMULATE")
  /\ source_word' = Word(source_address)
  /\ UNCHANGED <<addressVars, accumulator, result_word>>

Accumulate ==
  /\ Handshake("REDUCTION_ACCUMULATE",
               IF final_word THEN "REDUCTION_WRITE_REQUEST" ELSE "REDUCTION_READ_REQUEST")
  /\ accumulator' = next_accumulator
  /\ IF final_word
       THEN /\ result_word' = [ZeroWord EXCEPT ![0] = reduced_element]
            /\ UNCHANGED addressVars
       ELSE /\ source_address' = source_address + ELEMENTS_PER_WORD
            /\ elements_remaining' = elements_remaining - ELEMENTS_PER_WORD
            /\ UNCHANGED <<destination_address, result_word>>
  /\ UNCHANGED source_word

\* Only lane zero is enabled.
Written == Store(destination_address, result_word, {0})

ResultWritten ==
  /\ state = "REDUCTION_WRITE_RESPONSE"
  /\ memory' = Written
  /\ Finish("REDUCTION_RESPONSE", "ERR_NONE", result_word[0], active.length)
  /\ UNCHANGED reductionVars

\* Faulty variant: the word is tried again.
AccessRetried ==
  /\ \/ Handshake("REDUCTION_READ_RESPONSE", "REDUCTION_READ_REQUEST")
     \/ Handshake("REDUCTION_WRITE_RESPONSE", "REDUCTION_WRITE_REQUEST")
  /\ UNCHANGED reductionVars

AccessFails ==
  /\ \/ MemoryError({"REDUCTION_READ_RESPONSE"}, "REDUCTION_RESPONSE", {memory})
     \/ MemoryError({"REDUCTION_WRITE_RESPONSE"}, "REDUCTION_RESPONSE", {memory, Written})
  /\ UNCHANGED reductionVars

Respond == Handshake("REDUCTION_RESPONSE", "REDUCTION_IDLE") /\ UNCHANGED reductionVars

Advance == RequestFire \/ WordRead \/ Accumulate \/ ResultWritten \/ AccessFails \/ Respond

Next == (\E command \in Offered : AcceptCommand(command)) \/ Wait \/ Advance \/ Reset

\* The memory and the command processor do not stall for ever.
Spec == Init /\ [][Next]_vars /\ WF_vars(Advance)

----------------------------------------------------------------------------
(* Properties. *)

Source == active.src0 .. active.src0 + active.length - 1

\* The element is the sum of the source as it was, or its greatest element.
IsReduction(element) ==
  IF active.opcode = "SUM"
    THEN IsElementFor(element,
                      SumFunction([a \in Source |-> Meaning(before[a], active.signed)]),
                      active.signed, active.saturate)
    ELSE /\ \E a \in Source : element = before[a]
         /\ \A a \in Source :
              Meaning(before[a], active.signed) <= Meaning(element, active.signed)

\* Only the result element changed.
ResultStored ==
  /\ IsReduction(memory[active.dst])
  /\ \A a \in Space \ {active.dst} : memory[a] = before[a]

\* A command answered without error stored and reported the reduction of the
\* whole source: padding lanes of an odd length, words beyond it and the start
\* value never leak in, even when every element is negative, and the
\* destination may lie in the source.
ResultExact ==
  state = "REDUCTION_RESPONSE" /\ response.error = "ERR_NONE" =>
    /\ ResultStored
    /\ response.result = memory[active.dst]
    /\ completed = active.length

\* A command that fails leaves memory alone, unless its one write failed.
FailureKeepsMemory ==
  state = "REDUCTION_RESPONSE" /\ response.error # "ERR_NONE" =>
    /\ completed = 0
    /\ memory = before \/ (response.error = "ERR_ADDRESS" /\ ResultStored)

\* Requests stay in the scratchpad, the last partial word included.
AccessInScratchpad ==
  state \in RequestStates =>
    scratchpad_range_is_legal(
      IF state = "REDUCTION_WRITE_REQUEST" THEN destination_address ELSE source_address,
      ELEMENTS_PER_WORD)
=============================================================================
