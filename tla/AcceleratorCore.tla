-------------------------- MODULE AcceleratorCore ---------------------------
(***************************************************************************)
(* What the vector, reduction and GEMM accelerators share: the command and *)
(* response handshakes, the one-word memory port, the scratchpad address   *)
(* checks and the element arithmetic.  One step is one clock edge.         *)
(*                                                                         *)
(* Addresses and strobes count elements, not bytes.  Descriptor tags and   *)
(* cycle counts are left out.  The memory answers after any delay and may  *)
(* fail any access; a failed write may or may not have taken effect.       *)
(* before, completed and accepted are history variables.                   *)
(***************************************************************************)
EXTENDS Integers, Sequences, FiniteSetsExt

CONSTANTS
  ELEMENT_WIDTH,      \* bits in an element
  ELEMENTS_PER_WORD,  \* elements in a memory word
  Spm,                \* the scratchpad, a record of base and size
  Commands,           \* the sets of descriptors offered as first, second... command
  Contents            \* memory contents to start from

\* The parameters a build may choose.
CoreParameters ==
  /\ ELEMENT_WIDTH \in Nat \ {0}
  /\ ELEMENTS_PER_WORD \in Nat \ {0}
  /\ Spm.base \in Nat /\ Spm.size \in Nat

VARIABLES
  state,
  active,           \* the descriptor registers of the command in execution
  response,         \* response_reg: error and result
  done,             \* one-cycle event
  completed_event,  \* elements_completed_event, outputs_completed_event
  memory,           \* elements, the scratchpad and a word on either side
  before,           \* memory when the command was accepted
  completed,        \* total of completed_event for the command
  accepted          \* number of accepted commands

coreVars == <<state, active, response, done, completed_event, memory, before, completed,
              accepted>>

Lanes == 0 .. ELEMENTS_PER_WORD - 1
Space == Spm.base - ELEMENTS_PER_WORD .. Spm.base + Spm.size + ELEMENTS_PER_WORD - 1

----------------------------------------------------------------------------
(* Elements. *)

Modulus == 2 ^ ELEMENT_WIDTH
Elements == 0 .. Modulus - 1

\* The number an element stands for under FLAG_SIGNED.
Meaning(value, use_signed) ==
  IF use_signed /\ value >= Modulus \div 2 THEN value - Modulus ELSE value

Maximum(use_signed) == IF use_signed THEN Modulus \div 2 - 1 ELSE Modulus - 1
Minimum(use_signed) == IF use_signed THEN -(Modulus \div 2) ELSE 0

\* An exact result becomes an element: its low bits, or the range end it is
\* beyond.
Convert(value, use_signed, use_saturation) ==
  LET clipped == IF value > Maximum(use_signed) THEN Maximum(use_signed)
                 ELSE IF value < Minimum(use_signed) THEN Minimum(use_signed)
                 ELSE value
  IN  (IF use_saturation THEN clipped ELSE value) % Modulus

----------------------------------------------------------------------------
(* Addresses and words. *)

address_is_word_aligned(address) == address % ELEMENTS_PER_WORD = 0

scratchpad_range_is_legal(address, length) ==
  /\ length # 0
  /\ address >= Spm.base
  /\ address + length <= Spm.base + Spm.size

\* The storage of count elements, in whole words.
Storage(count) ==
  ((count + ELEMENTS_PER_WORD - 1) \div ELEMENTS_PER_WORD) * ELEMENTS_PER_WORD

Word(address) == [lane \in Lanes |-> memory[address + lane]]

Store(address, data, strobe) ==
  [a \in Space |-> IF a - address \in strobe THEN data[a - address] ELSE memory[a]]

ZeroWord == [lane \in Lanes |-> 0]

----------------------------------------------------------------------------
(* Parts of the clock edge; the accelerator adds its own registers. *)

NoCommand == [opcode |-> "INVALID"]

CoreInit(idle) ==
  /\ state = idle
  /\ active = NoCommand
  /\ response = [error |-> "ERR_NONE", result |-> 0]
  /\ done = FALSE
  /\ completed_event = 0
  /\ memory \in Contents
  /\ before = memory
  /\ completed = 0
  /\ accepted = 0

CoreReset(idle) ==
  /\ state' = idle
  /\ active' = NoCommand
  /\ response' = [error |-> "ERR_NONE", result |-> 0]
  /\ done' = FALSE
  /\ completed_event' = 0
  /\ before' = memory
  /\ completed' = 0
  /\ UNCHANGED <<memory, accepted>>

\* No result yet: count elements were committed in this cycle.
Proceed(next, count) ==
  /\ state' = next
  /\ done' = FALSE
  /\ completed_event' = count
  /\ completed' = completed + count
  /\ UNCHANGED <<active, response, before, accepted>>

\* Create the response.
Finish(next, error, result, count) ==
  /\ state' = next
  /\ response' = [error |-> error, result |-> result]
  /\ done' = TRUE
  /\ completed_event' = count
  /\ completed' = completed + count
  /\ UNCHANGED <<active, before, accepted>>

\* Bounds the number of accepted commands by the length of Commands.
Offered == IF accepted < Len(Commands) THEN Commands[accepted + 1] ELSE {}

\* A descriptor is accepted in the idle state and validated at once.
Accept(idle, first, last, command, validation_error) ==
  /\ state = idle
  /\ active' = command
  /\ before' = memory
  /\ completed' = 0
  /\ completed_event' = 0
  /\ accepted' = accepted + 1
  /\ IF validation_error = "ERR_NONE"
       THEN state' = first /\ done' = FALSE /\ UNCHANGED response
       ELSE /\ state' = last
            /\ done' = TRUE
            /\ response' = [error |-> validation_error, result |-> 0]
  /\ UNCHANGED memory

\* A handshake does not happen: only the events go low.
Hold(states) == state \in states /\ Proceed(state, 0) /\ UNCHANGED memory

\* A request handshake, or the response handshake.
Handshake(from, to) == state = from /\ Proceed(to, 0) /\ UNCHANGED memory

\* A memory response with an error ends the command.
MemoryError(states, last, memories) ==
  /\ state \in states
  /\ memory' \in memories
  /\ Finish(last, "ERR_ADDRESS", 0, 0)

----------------------------------------------------------------------------
(* What a result is, for the properties of the accelerators. *)

Distance(m, n) == IF m > n THEN m - n ELSE n - m

\* The element for an exact value: with saturation the nearest one there is,
\* otherwise the one congruent to it.
IsElementFor(element, exact, use_signed, use_saturation) ==
  LET Error(e) == Distance(Meaning(e, use_signed), exact)
  IN  IF use_saturation THEN \A other \in Elements : Error(element) <= Error(other)
      ELSE Error(element) % Modulus = 0
=============================================================================
