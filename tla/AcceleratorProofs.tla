------------------------- MODULE AcceleratorProofs --------------------------
(***************************************************************************)
(* The accelerators for every build, every set of descriptors and every    *)
(* behaviour of the memory.                                                *)
(***************************************************************************)
EXTENDS Accelerators, TLAPS, FiniteSetTheorems, WellFoundedInduction

----------------------------------------------------------------------------
(* Words. *)

\* Division with remainder.
LEMMA Division ==
  ASSUME NEW w \in Nat \ {0}, NEW a \in Nat
  PROVE  /\ a \div w \in Nat /\ a % w \in 0 .. w - 1
         /\ a = (a \div w) * w + (a % w)
<1>1. a \div w \in Nat
  OBVIOUS
<1>2. a % w \in 0 .. w - 1
  OBVIOUS
<1>3. a = (a \div w) * w + (a % w)
  OBVIOUS
<1> QED BY <1>1, <1>2, <1>3

\* The storage of a count of elements is a natural number.
LEMMA StorageNatural ==
  ASSUME NEW w \in Nat \ {0}, NEW count \in Nat
  PROVE  ((count + w - 1) \div w) * w \in Nat
<1>1. (count + w - 1) \div w \in Nat
  BY Division, count + w - 1 \in Nat
<1> QED BY <1>1

\* More words take at least as much room.
LEMMA ProductGrows ==
  ASSUME NEW w \in Nat, NEW p \in Nat, NEW q \in Nat, p <= q
  PROVE  p * w <= q * w
<1>1. PICK d \in Nat : q = p + d
  OBVIOUS
<1>2. q * w = p * w + d * w /\ d * w \in Nat /\ p * w \in Nat
  BY <1>1
<1> QED BY <1>2

\* A word that starts within the first count elements lies within their
\* storage.
LEMMA WordInStorage ==
  ASSUME NEW w \in Nat \ {0}, NEW count \in Nat, NEW q \in Nat, q * w < count
  PROVE  q * w + w <= ((count + w - 1) \div w) * w
<1> DEFINE s == (count + w - 1) \div w
<1>1. /\ s \in Nat /\ (count + w - 1) % w \in 0 .. w - 1
      /\ count + w - 1 = s * w + ((count + w - 1) % w)
  BY Division, count + w - 1 \in Nat
<1> HIDE DEF s
<1>2. q * w \in Nat /\ s * w \in Nat /\ q * w < s * w
  BY <1>1
<1>3. q < s
  <2>1. ASSUME s <= q PROVE FALSE
    <3>1. s * w <= q * w
      BY <1>1, <2>1, ProductGrows
    <3> QED BY <1>2, <3>1
  <2> QED BY <1>1, <2>1
<1>4. (q + 1) * w <= s * w
  BY <1>1, <1>3, ProductGrows
<1>5. (q + 1) * w = q * w + w
  OBVIOUS
<1> QED BY <1>4, <1>5 DEF s

\* So does the word that holds element offset of an aligned array of count.
LEMMA WordOfElement ==
  ASSUME NEW w \in Nat \ {0}, NEW base \in Nat, base % w = 0,
         NEW count \in Nat, NEW offset \in Nat, offset < count
  PROVE  LET word == (base + offset) - ((base + offset) % w)
         IN  word >= base /\ word + w <= base + ((count + w - 1) \div w) * w
<1> DEFINE b == base \div w
           q == (base + offset) \div w
           s == ((count + w - 1) \div w) * w
<1>1. b \in Nat /\ base = b * w
  BY Division
<1>2. /\ q \in Nat /\ (base + offset) % w \in 0 .. w - 1
      /\ base + offset = q * w + ((base + offset) % w)
  BY Division, base + offset \in Nat
<1>3. s \in Nat
  BY StorageNatural
<1> HIDE DEF b, q
<1>4. b <= q
  <2>1. ASSUME q + 1 <= b PROVE FALSE
    <3>1. (q + 1) * w <= b * w
      BY <1>1, <1>2, <2>1, ProductGrows
    <3>2. (q + 1) * w = q * w + w /\ q * w \in Nat
      BY <1>2
    <3> QED BY <1>1, <1>2, <3>1, <3>2
  <2> QED BY <1>1, <1>2, <2>1
<1>5. PICK d \in Nat : q = b + d
  BY <1>1, <1>2, <1>4
<1>6. q * w = b * w + d * w /\ d * w \in Nat
  BY <1>1, <1>5
<1>7. d * w + w <= s
  <2>1. d * w < count
    BY <1>1, <1>2, <1>6
  <2> QED BY <2>1, WordInStorage
<1> HIDE DEF s
<1>8. (base + offset) - ((base + offset) % w) = base + d * w
  <2>1. q * w \in Nat /\ b * w \in Nat /\ (base + offset) % w \in Nat
    BY <1>1, <1>2
  <2>2. (base + offset) - ((base + offset) % w) = q * w
    BY <1>2, <2>1
  <2> QED BY <1>1, <1>6, <2>1, <2>2
<1> QED BY <1>3, <1>6, <1>7, <1>8 DEF s

\* Row i and column j of a matrix of m rows and n columns.
LEMMA ElementInMatrix ==
  ASSUME NEW m \in Nat, NEW n \in Nat, NEW i \in 0 .. m - 1, NEW j \in 0 .. n - 1
  PROVE  i * n + j \in Nat /\ i * n + j < m * n
<1>1. (i + 1) * n <= m * n
  BY ProductGrows
<1>2. (i + 1) * n = i * n + n /\ i * n \in Nat /\ m * n \in Nat
  OBVIOUS
<1> QED BY <1>1, <1>2

----------------------------------------------------------------------------
(* The vector accelerator. *)

VectorWorking ==
  V!RequestStates \cup V!ReadStates \cup {"VECTOR_EXECUTE", "VECTOR_WRITE_RESPONSE"}

\* A descriptor that passed validation.
VectorAdmitted ==
  /\ active.src0 \in Nat /\ active.src1 \in Nat /\ active.dst \in Nat
  /\ active.length \in Nat
  /\ active.opcode \in V!VectorOpcodes
  /\ ~V!OutOfBounds(active)

\* The first words of the command are done; the addresses stand at the next.
VectorAt(words) ==
  LET position == words * Vector.elements_per_word
  IN  /\ position < active.length
      /\ elements_remaining = active.length - position
      /\ source0_address = active.src0 + position
      /\ destination_address = active.dst + position
      /\ V!vector_opcode_uses_source1(active.opcode) =>
           source1_address = active.src1 + position
      /\ active.opcode = "SCALE" => source1_address = active.src1

\* Only the opcodes with a second operand read one.
VectorInv ==
  /\ accepted \in Nat
  /\ state \in VectorWorking =>
       /\ VectorAdmitted
       /\ \E words \in Nat : VectorAt(words)
  /\ state \in {"VECTOR_SCALAR_REQUEST", "VECTOR_SCALAR_RESPONSE"} =>
       active.opcode = "SCALE"
  /\ state \in {"VECTOR_SOURCE1_REQUEST", "VECTOR_SOURCE1_RESPONSE"} =>
       V!vector_opcode_uses_source1(active.opcode)

\* A validated command stands at its first word.
LEMMA VectorAccepted ==
  ASSUME accepted \in Nat, NEW command \in V!Offered, V!AcceptCommand(command)
  PROVE  VectorInv'
<1>1. command.src0 \in Nat /\ command.src1 \in Nat /\ command.dst \in Nat
  BY AddressesUnsigned DEF V!Offered, Offers
<1>2. CASE V!command_validation_error(command) # "ERR_NONE"
  BY <1>2 DEF V!AcceptCommand, V!Accept, VectorInv, VectorWorking, V!RequestStates,
              V!ReadStates
<1>3. CASE V!command_validation_error(command) = "ERR_NONE"
  <2>1. command.length \in Nat \ {0} /\ ~V!OutOfBounds(command)
        /\ command.opcode \in V!VectorOpcodes
    BY <1>3, ParametersValid DEF V!command_validation_error, V!VectorParameters
  <2>2. /\ active' = command
        /\ state' = IF command.opcode = "SCALE" THEN "VECTOR_SCALAR_REQUEST"
                    ELSE "VECTOR_SOURCE0_REQUEST"
        /\ source0_address' = command.src0
        /\ source1_address' = command.src1
        /\ destination_address' = command.dst
        /\ elements_remaining' = command.length
    BY <1>3 DEF V!AcceptCommand, V!Accept
  <2>3. VectorAdmitted'
    BY <1>1, <2>1, <2>2 DEF VectorAdmitted
  <2>4. VectorAt(0)'
    BY <1>1, <2>1, <2>2, ParametersValid DEF VectorAt, V!CoreParameters
  <2>5. accepted' \in Nat
    BY DEF V!AcceptCommand, V!Accept
  <2> QED BY <2>2, <2>3, <2>4, <2>5 DEF VectorInv
<1> QED BY <1>2, <1>3

\* A step that keeps command and addresses keeps the place; it only has to
\* pick the right state.
VectorStays == UNCHANGED <<active, accepted, source0_address, source1_address,
                           destination_address, elements_remaining>>

\* Steps that leave the addresses alone leave their place alone.
LEMMA VectorPlaceKept ==
  ASSUME VectorStays
  PROVE  /\ VectorAdmitted <=> VectorAdmitted'
         /\ (\E words \in Nat : VectorAt(words)) <=> (\E words \in Nat : VectorAt(words))'
BY DEF VectorStays, VectorAdmitted, VectorAt, V!OutOfBounds

\* The addresses move on by a word each.
LEMMA VectorMovesOn ==
  ASSUME VectorInv, V!WordWritten
  PROVE  VectorInv'
<1> DEFINE W == Vector.elements_per_word
<1>1. W \in Nat \ {0}
  BY ParametersValid DEF V!CoreParameters
<1>2. VectorAdmitted
  BY DEF V!WordWritten, VectorInv, VectorWorking
<1>3. CASE V!final_word
  BY <1>3 DEF V!WordWritten, V!Finish, VectorInv, VectorWorking, V!RequestStates, V!ReadStates
<1>4. CASE ~V!final_word
  <2>1. PICK words \in Nat : VectorAt(words)
    BY DEF V!WordWritten, VectorInv, VectorWorking
  <2>2. (words + 1) * W = words * W + W /\ words * W \in Nat
    BY <1>1
  <2>3. /\ state' = "VECTOR_SOURCE0_REQUEST" /\ UNCHANGED <<active, accepted>>
        /\ source0_address' = source0_address + W
        /\ source1_address' = IF V!vector_opcode_uses_source1(active.opcode)
                                THEN source1_address + W ELSE source1_address
        /\ destination_address' = destination_address + W
        /\ elements_remaining' = elements_remaining - W
    BY <1>4 DEF V!WordWritten, V!Proceed
  <2>4. VectorAdmitted'
    BY <1>2, <2>3 DEF VectorAdmitted, V!OutOfBounds
  <2>5. elements_remaining > W
    BY <1>1, <1>2, <1>4, <2>1, <2>2 DEF V!final_word, VectorAt, VectorAdmitted
  <2>6. VectorAt(words + 1)'
    <3>1. active.opcode = "SCALE" => ~V!vector_opcode_uses_source1(active.opcode)
      BY DEF V!vector_opcode_uses_source1
    <3>2. /\ active.src0 \in Nat /\ active.src1 \in Nat /\ active.dst \in Nat
          /\ active.length \in Nat
      BY <1>2 DEF VectorAdmitted
    <3> QED BY <1>1, <2>1, <2>2, <2>3, <2>5, <3>1, <3>2 DEF VectorAt
  <2> QED BY <2>3, <2>4, <2>6 DEF VectorInv
<1> QED BY <1>3, <1>4

\* Every step of the vector accelerator keeps its place in its vectors.
LEMMA VectorInductive ==
  ASSUME VectorInv, V!Next
  PROVE  VectorInv'
<1> USE DEF VectorWorking, V!RequestStates, V!ReadStates
<1>1. ASSUME NEW command \in V!Offered, V!AcceptCommand(command) PROVE VectorInv'
  BY <1>1, VectorAccepted DEF VectorInv
<1>2. CASE V!Wait
  <2>1. VectorStays /\ state' = state
    BY <1>2 DEF V!Wait, V!Hold, V!Proceed, V!vectorVars, VectorStays
  <2> QED BY <2>1, VectorPlaceKept DEF VectorInv, VectorStays
<1>3. CASE V!RequestFire
  <2>1. VectorStays
    BY <1>3 DEF V!RequestFire, V!Handshake, V!Proceed, V!vectorVars, VectorStays
  <2> QED BY <1>3, <2>1, VectorPlaceKept
          DEF VectorInv, VectorStays, V!RequestFire, V!Handshake, V!Proceed
<1>4. CASE V!ScalarRead
  <2>1. VectorStays
    BY <1>4 DEF V!ScalarRead, V!Handshake, V!Proceed, V!addressVars, VectorStays
  <2> QED BY <1>4, <2>1, VectorPlaceKept
          DEF VectorInv, VectorStays, V!ScalarRead, V!Handshake, V!Proceed
<1>5. CASE V!Source0Read
  <2>1. VectorStays
    BY <1>5 DEF V!Source0Read, V!Handshake, V!Proceed, V!addressVars, VectorStays
  <2> QED BY <1>5, <2>1, VectorPlaceKept
          DEF VectorInv, VectorStays, V!Source0Read, V!Handshake, V!Proceed
<1>6. CASE V!Source1Read
  <2>1. VectorStays
    BY <1>6 DEF V!Source1Read, V!Handshake, V!Proceed, V!addressVars, VectorStays
  <2> QED BY <1>6, <2>1, VectorPlaceKept
          DEF VectorInv, VectorStays, V!Source1Read, V!Handshake, V!Proceed
<1>7. CASE V!Execute
  <2>1. VectorStays
    BY <1>7 DEF V!Execute, V!Handshake, V!Proceed, V!addressVars, VectorStays
  <2> QED BY <1>7, <2>1, VectorPlaceKept
          DEF VectorInv, VectorStays, V!Execute, V!Handshake, V!Proceed
<1>8. CASE V!WordWritten
  BY <1>8, VectorMovesOn
<1>9. CASE V!AccessFails
  BY <1>9 DEF V!AccessFails, V!MemoryError, V!Finish, VectorInv
<1>10. CASE V!Respond
  BY <1>10 DEF V!Respond, V!Handshake, V!Proceed, VectorInv
<1>11. CASE V!Reset
  BY <1>11 DEF V!Reset, V!CoreReset, VectorInv
<1> QED BY <1>1, <1>2, <1>3, <1>4, <1>5, <1>6, <1>7, <1>8, <1>9, <1>10, <1>11
        DEF V!Next, V!Advance

\* From there every word it asks for lies in the scratchpad.
LEMMA VectorAccess ==
  ASSUME VectorInv
  PROVE  V!AccessInScratchpad
<1> DEFINE W == Vector.elements_per_word
<1>1. W \in Nat \ {0} /\ Vector.spm.base \in Nat /\ Vector.spm.size \in Nat
  BY ParametersValid DEF V!CoreParameters
<1>2. SUFFICES ASSUME state \in V!RequestStates PROVE V!AccessInScratchpad
  BY DEF V!AccessInScratchpad
<1>3. VectorAdmitted
  BY <1>2 DEF VectorInv, VectorWorking
<1>4. PICK words \in Nat : VectorAt(words)
  BY <1>2 DEF VectorInv, VectorWorking
<1>5. words * W \in Nat /\ words * W + W <= V!Storage(active.length)
  <2>1. words * W < active.length /\ active.length \in Nat /\ words * W \in Nat
    BY <1>1, <1>3, <1>4 DEF VectorAt, VectorAdmitted
  <2> HIDE DEF W
  <2>2. words * W + W <= ((active.length + W - 1) \div W) * W
    BY <1>1, <2>1, WordInStorage
  <2> QED BY <2>1, <2>2 DEF V!Storage, W
\* Any operand that validation checked covers the next word.
<1>6. ASSUME NEW base \in Nat, V!scratchpad_range_is_legal(base, V!Storage(active.length))
      PROVE  V!scratchpad_range_is_legal(base + words * W, W)
  <2>1. V!Storage(active.length) \in Nat
    BY <1>1, <1>3, StorageNatural DEF V!Storage, VectorAdmitted
  <2> QED BY <1>1, <1>5, <1>6, <2>1 DEF V!scratchpad_range_is_legal
<1>7. CASE state = "VECTOR_SOURCE0_REQUEST"
  BY <1>3, <1>4, <1>6, <1>7 DEF V!AccessInScratchpad, VectorAdmitted, V!OutOfBounds, VectorAt
<1>8. CASE state = "VECTOR_WRITE_REQUEST"
  BY <1>3, <1>4, <1>6, <1>8 DEF V!AccessInScratchpad, VectorAdmitted, V!OutOfBounds, VectorAt
<1>9. CASE state = "VECTOR_SOURCE1_REQUEST"
  BY <1>3, <1>4, <1>6, <1>9
     DEF V!AccessInScratchpad, VectorAdmitted, V!OutOfBounds, VectorAt, VectorInv
<1>10. CASE state = "VECTOR_SCALAR_REQUEST"
  BY <1>3, <1>4, <1>10
     DEF V!AccessInScratchpad, VectorAdmitted, V!OutOfBounds, VectorAt, VectorInv
<1> QED BY <1>2, <1>7, <1>8, <1>9, <1>10 DEF V!RequestStates

----------------------------------------------------------------------------
(* The reduction accelerator. *)

ReductionReading == {"REDUCTION_READ_REQUEST", "REDUCTION_READ_RESPONSE",
                     "REDUCTION_ACCUMULATE"}

ReductionWorking == ReductionReading \cup {"REDUCTION_WRITE_REQUEST",
                                           "REDUCTION_WRITE_RESPONSE"}

ReductionAdmitted ==
  /\ active.src0 \in Nat /\ active.dst \in Nat
  /\ active.length \in 1 .. Reduction.max_length /\ active.opcode \in R!ReductionOpcodes
  /\ ~R!OutOfBounds(active)

\* The first words of the source are accumulated.
ReductionAt(words) ==
  LET position == words * Reduction.elements_per_word
  IN  /\ position < active.length
      /\ elements_remaining = active.length - position
      /\ source_address = active.src0 + position

ReductionInv ==
  /\ accepted \in Nat
  /\ state \in ReductionWorking => ReductionAdmitted /\ destination_address = active.dst
  /\ state \in ReductionReading => \E words \in Nat : ReductionAt(words)

\* An accepted reduction starts at the first word of its source.
LEMMA ReductionAccepted ==
  ASSUME accepted \in Nat, NEW command \in R!Offered, R!AcceptCommand(command)
  PROVE  ReductionInv'
<1>0. accepted' \in Nat
  BY DEF R!AcceptCommand, R!Accept
<1>1. command.src0 \in Nat /\ command.dst \in Nat
  BY AddressesUnsigned DEF R!Offered, Offers
<1>2. CASE R!command_validation_error(command) # "ERR_NONE"
  BY <1>0, <1>2 DEF R!AcceptCommand, R!Accept, ReductionInv, ReductionWorking,
                    ReductionReading
<1>3. CASE R!command_validation_error(command) = "ERR_NONE"
  <2>1. /\ command.length \in 1 .. Reduction.max_length /\ command.length \in Nat \ {0}
        /\ command.opcode \in R!ReductionOpcodes /\ ~R!OutOfBounds(command)
    BY <1>3, ParametersValid DEF R!command_validation_error, R!ReductionParameters
  <2>2. /\ active' = command
        /\ state' = "REDUCTION_READ_REQUEST"
        /\ source_address' = command.src0
        /\ destination_address' = command.dst
        /\ elements_remaining' = command.length
    BY <1>3 DEF R!AcceptCommand, R!Accept
  <2>3. ReductionAdmitted'
    BY <1>1, <2>1, <2>2 DEF ReductionAdmitted
  <2>4. ReductionAt(0)'
    BY <1>1, <2>1, <2>2, ParametersValid DEF ReductionAt, R!CoreParameters
  <2> QED BY <1>0, <2>2, <2>3, <2>4 DEF ReductionInv
<1> QED BY <1>2, <1>3

ReductionStays ==
  UNCHANGED <<active, accepted, source_address, destination_address, elements_remaining>>

\* Steps that leave the addresses alone leave their place alone.
LEMMA ReductionPlaceKept ==
  ASSUME ReductionStays
  PROVE  /\ ReductionAdmitted <=> ReductionAdmitted'
         /\ (\E words \in Nat : ReductionAt(words))
              <=> (\E words \in Nat : ReductionAt(words))'
BY DEF ReductionStays, ReductionAdmitted, ReductionAt, R!OutOfBounds

\* An accumulated word moves the source on by one word, or ends it.
LEMMA ReductionMovesOn ==
  ASSUME ReductionInv, R!Accumulate
  PROVE  ReductionInv'
<1> DEFINE W == Reduction.elements_per_word
<1>1. W \in Nat \ {0}
  BY ParametersValid DEF R!CoreParameters
<1>2. /\ state = "REDUCTION_ACCUMULATE" /\ UNCHANGED <<active, accepted>>
      /\ state' = IF R!final_word THEN "REDUCTION_WRITE_REQUEST" ELSE "REDUCTION_READ_REQUEST"
  BY DEF R!Accumulate, R!Handshake, R!Proceed
<1>3. ReductionAdmitted /\ destination_address = active.dst
  BY <1>2 DEF ReductionInv, ReductionWorking, ReductionReading
<1>4. ReductionAdmitted'
  BY <1>2, <1>3 DEF ReductionAdmitted, R!OutOfBounds
<1>5. destination_address' = active'.dst
  BY <1>2, <1>3 DEF R!Accumulate, R!addressVars
<1>6. CASE R!final_word
  BY <1>2, <1>4, <1>5, <1>6 DEF ReductionInv, ReductionReading
<1>7. CASE ~R!final_word
  <2>1. PICK words \in Nat : ReductionAt(words)
    BY <1>2 DEF ReductionInv, ReductionReading
  <2>2. (words + 1) * W = words * W + W /\ words * W \in Nat
    BY <1>1
  <2>3. source_address' = source_address + W /\ elements_remaining' = elements_remaining - W
    BY <1>7 DEF R!Accumulate
  <2>4. elements_remaining > W
    BY <1>1, <1>3, <1>7, <2>1, <2>2 DEF R!final_word, ReductionAt, ReductionAdmitted
  <2>5. ReductionAt(words + 1)'
    BY <1>1, <1>2, <1>3, <2>1, <2>2, <2>3, <2>4 DEF ReductionAt, ReductionAdmitted
  <2> QED BY <1>2, <1>4, <1>5, <2>5 DEF ReductionInv
<1> QED BY <1>6, <1>7

\* Every step of the reduction accelerator keeps its place in its source.
LEMMA ReductionInductive ==
  ASSUME ReductionInv, R!Next
  PROVE  ReductionInv'
<1> USE DEF ReductionWorking, ReductionReading
<1>1. ASSUME NEW command \in R!Offered, R!AcceptCommand(command) PROVE ReductionInv'
  BY <1>1, ReductionAccepted DEF ReductionInv
<1>2. CASE R!Wait
  <2>1. ReductionStays /\ state' = state
    BY <1>2 DEF R!Wait, R!Hold, R!Proceed, R!reductionVars, ReductionStays
  <2> QED BY <2>1, ReductionPlaceKept DEF ReductionInv, ReductionStays
<1>3. CASE R!RequestFire
  <2>1. ReductionStays
    BY <1>3 DEF R!RequestFire, R!Handshake, R!Proceed, R!reductionVars, ReductionStays
  <2> QED BY <1>3, <2>1, ReductionPlaceKept
          DEF ReductionInv, ReductionStays, R!RequestFire, R!Handshake, R!Proceed
<1>4. CASE R!WordRead
  <2>1. ReductionStays
    BY <1>4 DEF R!WordRead, R!Handshake, R!Proceed, R!addressVars, ReductionStays
  <2> QED BY <1>4, <2>1, ReductionPlaceKept
          DEF ReductionInv, ReductionStays, R!WordRead, R!Handshake, R!Proceed
<1>5. CASE R!Accumulate
  BY <1>5, ReductionMovesOn
<1>6. CASE R!ResultWritten
  BY <1>6 DEF R!ResultWritten, R!Finish, ReductionInv
<1>7. CASE R!AccessFails
  BY <1>7 DEF R!AccessFails, R!MemoryError, R!Finish, ReductionInv
<1>8. CASE R!Respond
  BY <1>8 DEF R!Respond, R!Handshake, R!Proceed, ReductionInv
<1>9. CASE R!Reset
  BY <1>9 DEF R!Reset, R!CoreReset, ReductionInv
<1> QED BY <1>1, <1>2, <1>3, <1>4, <1>5, <1>6, <1>7, <1>8, <1>9 DEF R!Next, R!Advance

\* From there every word it asks for lies in the scratchpad.
LEMMA ReductionAccess ==
  ASSUME ReductionInv
  PROVE  R!AccessInScratchpad
<1> DEFINE W == Reduction.elements_per_word
<1>1. W \in Nat \ {0} /\ Reduction.spm.base \in Nat /\ Reduction.spm.size \in Nat
  BY ParametersValid DEF R!CoreParameters
<1>2. CASE state = "REDUCTION_WRITE_REQUEST"
  BY <1>2 DEF ReductionInv, ReductionWorking, ReductionAdmitted, R!OutOfBounds,
              R!AccessInScratchpad
<1>3. CASE state = "REDUCTION_READ_REQUEST"
  <2>1. ReductionAdmitted
    BY <1>3 DEF ReductionInv, ReductionWorking, ReductionReading
  <2>2. PICK words \in Nat : ReductionAt(words)
    BY <1>3 DEF ReductionInv, ReductionReading
  <2>3. words * W \in Nat /\ words * W + W <= R!Storage(active.length)
    <3>1. words * W < active.length /\ active.length \in Nat /\ words * W \in Nat
      BY <1>1, <2>1, <2>2 DEF ReductionAt, ReductionAdmitted
    <3> QED BY <1>1, <3>1, WordInStorage DEF R!Storage
  <2>4. R!Storage(active.length) \in Nat
    BY <1>1, <2>1, StorageNatural DEF R!Storage, ReductionAdmitted
  <2> QED BY <1>1, <1>3, <2>1, <2>2, <2>3, <2>4
          DEF R!AccessInScratchpad, R!scratchpad_range_is_legal, ReductionAdmitted,
              R!OutOfBounds, ReductionAt
<1> QED BY <1>2, <1>3 DEF R!AccessInScratchpad, R!RequestStates

----------------------------------------------------------------------------
(* The GEMM accelerator. *)

GemmWorking == G!ReadA \cup G!ReadB \cup G!WriteC \cup {"GEMM_MAC"}

\* What a build guarantees.
LEMMA GemmBuild ==
  /\ Gemm.elements_per_word \in Nat \ {0}
  /\ Gemm.spm.base \in Nat /\ Gemm.spm.size \in Nat
  /\ Gemm.max_m \in Nat /\ Gemm.max_n \in Nat /\ Gemm.max_k \in Nat
  /\ Gemm.tile_m \in Nat \ {0} /\ Gemm.tile_n \in Nat \ {0}
BY ParametersValid DEF G!CoreParameters, G!GemmParameters

GemmAdmitted ==
  /\ \A base \in {active.src0, active.src1, active.dst} :
       base \in Nat /\ G!address_is_word_aligned(base)
  /\ active.m \in Nat \ {0} /\ active.n \in Nat \ {0} /\ active.k \in Nat \ {0}
  /\ active.k <= Gemm.max_k
  /\ ~G!OutOfBounds(active)
  /\ ~G!ranges_overlap(active.dst, G!CStorage(active), active.src0, G!AStorage(active))
  /\ ~G!ranges_overlap(active.dst, G!CStorage(active), active.src1, G!BStorage(active))

\* The tile starts in the matrix, and so many outputs were written before it:
\* all of the rows above, and in its own rows the columns to the left.
TileAt ==
  /\ tile_row_base \in 0 .. active.m - 1
  /\ tile_column_base \in 0 .. active.n - 1
  /\ k_index \in 0 .. active.k - 1

BeforeTile == tile_row_base * active.n + G!valid_tile_rows * tile_column_base

WrittenInTile ==
  IF state \in G!WriteC THEN write_row_index * G!valid_tile_columns + write_column_index
  ELSE 0

\* Each index stays in the valid part of the tile while it is used.
GemmInv ==
  /\ accepted \in Nat
  /\ state \in GemmWorking =>
       /\ GemmAdmitted
       /\ TileAt
       /\ outputs_written = BeforeTile + WrittenInTile
  /\ state \in G!ReadA => load_row_index \in 0 .. G!valid_tile_rows - 1
  /\ state \in G!ReadB => load_column_index \in 0 .. G!valid_tile_columns - 1
  /\ state \in G!WriteC =>
       /\ write_row_index \in 0 .. G!valid_tile_rows - 1
       /\ write_column_index \in 0 .. G!valid_tile_columns - 1

\* The valid part of the tile is never empty.
LEMMA ValidTile ==
  ASSUME GemmAdmitted, TileAt
  PROVE  /\ G!valid_tile_rows \in 1 .. active.m - tile_row_base
         /\ G!valid_tile_columns \in 1 .. active.n - tile_column_base
         /\ G!valid_tile_rows < active.m - tile_row_base => G!valid_tile_rows = Gemm.tile_m
         /\ G!valid_tile_columns < active.n - tile_column_base
              => G!valid_tile_columns = Gemm.tile_n
BY GemmBuild DEF GemmAdmitted, TileAt, G!valid_tile_rows, G!valid_tile_columns, G!AtMost

\* The same of the next state.
LEMMA ValidTilePrimed ==
  ASSUME GemmAdmitted', TileAt'
  PROVE  (G!valid_tile_rows \in Nat \ {0} /\ 0 \in 0 .. G!valid_tile_rows - 1)'
<1>1. /\ active'.m \in Nat /\ tile_row_base' \in 0 .. active'.m - 1
      /\ Gemm.tile_m \in Nat \ {0}
  BY GemmBuild DEF GemmAdmitted, TileAt
<1>2. PICK rows : rows = G!valid_tile_rows' /\ rows \in Nat \ {0}
  BY <1>1 DEF G!valid_tile_rows, G!AtMost
<1>3. \A n \in Nat \ {0} : 0 \in 0 .. n - 1
  OBVIOUS
<1> QED BY <1>2, <1>3

\* An accepted product starts at the first tile.
LEMMA GemmAccepted ==
  ASSUME accepted \in Nat, NEW command \in G!Offered, G!AcceptCommand(command)
  PROVE  GemmInv'
<1>0. accepted' \in Nat
  BY DEF G!AcceptCommand, G!Accept
<1>1. command.src0 \in Nat /\ command.src1 \in Nat /\ command.dst \in Nat
  BY AddressesUnsigned DEF G!Offered, Offers
<1>2. CASE G!command_validation_error(command) # "ERR_NONE"
  BY <1>0, <1>2 DEF G!AcceptCommand, G!Accept, GemmInv, GemmWorking, G!ReadA, G!ReadB,
                    G!WriteC
<1>3. CASE G!command_validation_error(command) = "ERR_NONE"
  <2>1. /\ command.m \in Nat \ {0} /\ command.n \in Nat \ {0} /\ command.k \in Nat \ {0}
        /\ command.k <= Gemm.max_k /\ ~G!OutOfBounds(command)
        /\ \A base \in {command.src0, command.src1, command.dst} :
             G!address_is_word_aligned(base)
        /\ ~G!ranges_overlap(command.dst, G!CStorage(command), command.src0,
                             G!AStorage(command))
        /\ ~G!ranges_overlap(command.dst, G!CStorage(command), command.src1,
                             G!BStorage(command))
    BY <1>3, GemmBuild DEF G!command_validation_error
  <2>2. /\ active' = command /\ state' = "GEMM_READ_A_REQUEST"
        /\ tile_row_base' = 0 /\ tile_column_base' = 0 /\ k_index' = 0
        /\ load_row_index' = 0 /\ outputs_written' = 0
    BY <1>3 DEF G!AcceptCommand, G!Accept, G!ClearIndices
  <2>3. GemmAdmitted'
    BY <1>1, <2>1, <2>2 DEF GemmAdmitted
  <2>4. TileAt'
    BY <2>1, <2>2 DEF TileAt
  <2>5. (G!valid_tile_rows \in Nat \ {0})'
    BY <2>1, <2>2, GemmBuild DEF G!valid_tile_rows, G!AtMost
  <2>6. (BeforeTile + WrittenInTile)' = 0
    BY <2>1, <2>2, <2>5 DEF BeforeTile, WrittenInTile, G!WriteC
  <2>7. (state \notin G!ReadB \cup G!WriteC)'
    BY <2>2 DEF G!ReadB, G!WriteC
  <2>8. (load_row_index \in 0 .. G!valid_tile_rows - 1)'
    <3>1. \A rows \in Nat \ {0} : 0 \in 0 .. rows - 1
      OBVIOUS
    <3> QED BY <2>2, <2>5, <3>1
  <2>9. (outputs_written = BeforeTile + WrittenInTile)'
    BY <2>2, <2>6
  <2> QED BY <1>0, <2>3, <2>4, <2>7, <2>8, <2>9 DEF GemmInv
<1> QED BY <1>2, <1>3

\* What depends on the command and the tile only.
LEMMA TileKept ==
  ASSUME UNCHANGED <<active, tile_row_base, tile_column_base>>
  PROVE  /\ GemmAdmitted <=> GemmAdmitted'
         /\ UNCHANGED <<G!valid_tile_rows, G!valid_tile_columns, BeforeTile>>
         /\ k_index' = k_index => (TileAt <=> TileAt')
BY DEF GemmAdmitted, G!OutOfBounds, G!valid_tile_rows, G!valid_tile_columns, BeforeTile,
       TileAt

\* Every step but the writes and those that begin or end a command.
LEMMA GemmReads ==
  ASSUME GemmInv,
         G!Wait \/ G!RequestFire \/ G!ElementOfARead \/ G!ElementOfBRead \/ G!MultiplyAccumulate
  PROVE  GemmInv'
<1> USE DEF GemmWorking, G!ReadA, G!ReadB, G!WriteC, G!Handshake, G!Proceed, G!gemmVars,
            G!loadVars, G!writeVars, G!tileVars
<1>1. /\ UNCHANGED <<active, accepted, tile_row_base, tile_column_base, outputs_written>>
      /\ state' \in GemmWorking => state \in GemmWorking
  BY DEF G!Wait, G!Hold, G!RequestFire, G!ElementOfARead, G!ElementOfBRead,
         G!MultiplyAccumulate
<1>2. /\ GemmAdmitted <=> GemmAdmitted'
      /\ UNCHANGED <<G!valid_tile_rows, G!valid_tile_columns, BeforeTile>>
      /\ k_index' = k_index => (TileAt <=> TileAt')
  BY <1>1, TileKept
<1>3. CASE state \notin GemmWorking
  BY <1>1, <1>3 DEF GemmInv
<1>4. CASE state \in GemmWorking
  <2>1. GemmAdmitted /\ TileAt /\ outputs_written = BeforeTile + WrittenInTile
    BY <1>4 DEF GemmInv
  <2>2. /\ G!valid_tile_rows \in Nat \ {0} /\ G!valid_tile_columns \in Nat \ {0}
        /\ 0 \in 0 .. G!valid_tile_rows - 1 /\ 0 \in 0 .. G!valid_tile_columns - 1
    BY <2>1, ValidTile DEF GemmAdmitted, TileAt
  <2>3. BeforeTile \in Nat
    BY <2>1, <2>2 DEF BeforeTile, GemmAdmitted, TileAt
  <2>4. CASE G!Wait
    BY <1>1, <1>2, <2>1, <2>4 DEF G!Wait, G!Hold, GemmInv, WrittenInTile
  <2>5. CASE G!RequestFire
    BY <1>1, <1>2, <2>1, <2>5 DEF G!RequestFire, GemmInv, WrittenInTile
  <2>6. CASE G!ElementOfARead
    <3>1. load_row_index + 1 < G!valid_tile_rows
            => load_row_index + 1 \in 0 .. G!valid_tile_rows - 1
      BY <2>2, <2>6 DEF G!ElementOfARead, GemmInv
    <3>2. load_row_index + 1 \in Nat
      BY <2>2, <2>6 DEF G!ElementOfARead, GemmInv
    <3> QED BY <1>1, <1>2, <2>1, <2>2, <2>6, <3>1, <3>2
            DEF G!ElementOfARead, GemmInv, WrittenInTile
  <2>7. CASE G!ElementOfBRead
    <3>1. load_column_index + 1 < G!valid_tile_columns
            => load_column_index + 1 \in 0 .. G!valid_tile_columns - 1
      BY <2>2, <2>7 DEF G!ElementOfBRead, GemmInv
    <3>2. load_column_index + 1 \in Nat
      BY <2>2, <2>7 DEF G!ElementOfBRead, GemmInv
    <3> QED BY <1>1, <1>2, <2>1, <2>2, <2>7, <3>1, <3>2
            DEF G!ElementOfBRead, GemmInv, WrittenInTile
  <2>8. CASE G!MultiplyAccumulate
    <3>1. CASE k_index + 1 < active.k
      <4>1. TileAt'
        BY <1>1, <2>1, <2>8, <3>1 DEF G!MultiplyAccumulate, TileAt, GemmAdmitted
      <4> QED BY <1>1, <1>2, <2>1, <2>2, <2>8, <3>1, <4>1
              DEF G!MultiplyAccumulate, GemmInv, WrittenInTile
    <3>2. CASE ~(k_index + 1 < active.k)
      <4>1. (write_row_index * G!valid_tile_columns + write_column_index)' = 0
        BY <1>2, <2>2, <2>8, <3>2 DEF G!MultiplyAccumulate
      <4>2. WrittenInTile = 0 /\ WrittenInTile' = 0
        BY <2>8, <3>2, <4>1 DEF G!MultiplyAccumulate, WrittenInTile
      <4> QED BY <1>1, <1>2, <2>1, <2>2, <2>8, <3>2, <4>2 DEF G!MultiplyAccumulate, GemmInv
    <3> QED BY <3>1, <3>2
  <2> QED BY <2>4, <2>5, <2>6, <2>7, <2>8
<1> QED BY <1>3, <1>4

\* The last output of a tile: its rows are written up to the right edge of
\* the tile.
LEMMA TileFinished ==
  ASSUME GemmAdmitted, TileAt,
         write_row_index \in Nat, write_column_index \in Nat,
         write_row_index + 1 = G!valid_tile_rows,
         write_column_index + 1 = G!valid_tile_columns,
         outputs_written = BeforeTile
                             + (write_row_index * G!valid_tile_columns + write_column_index)
  PROVE  outputs_written + 1
           = tile_row_base * active.n
               + G!valid_tile_rows * (tile_column_base + G!valid_tile_columns)
<1> DEFINE r == G!valid_tile_rows
           c == G!valid_tile_columns
<1>1. /\ r \in Nat \ {0} /\ c \in Nat \ {0} /\ tile_row_base \in Nat
      /\ tile_column_base \in Nat /\ active.n \in Nat
  BY ValidTile DEF GemmAdmitted, TileAt
<1>2. PICK i \in Nat : i = write_row_index /\ r = i + 1
  OBVIOUS
<1>3. PICK j \in Nat : j = write_column_index /\ c = j + 1
  OBVIOUS
<1> HIDE DEF r, c
<1>4. i * c + j + 1 = r * c
  BY <1>1, <1>2, <1>3
<1>5. r * (tile_column_base + c) = r * tile_column_base + r * c
      /\ r * tile_column_base \in Nat /\ r * c \in Nat
      /\ tile_row_base * active.n \in Nat /\ i * c \in Nat
  BY <1>1, <1>2
<1> QED BY <1>2, <1>3, <1>4, <1>5 DEF BeforeTile, r, c

\* A written output moves on in its tile, then to the next tile, or ends.
LEMMA GemmWrites ==
  ASSUME GemmInv, G!OutputWritten
  PROVE  GemmInv'
<1> DEFINE r == G!valid_tile_rows
           c == G!valid_tile_columns
<1>1. /\ state \in G!WriteC /\ state = "GEMM_WRITE_RESPONSE"
      /\ GemmAdmitted /\ TileAt
      /\ UNCHANGED <<active, accepted>> /\ accepted \in Nat
      /\ outputs_written' = outputs_written + 1
  BY DEF G!OutputWritten, G!NextOutput, G!NextTile, G!Proceed, G!Finish, GemmInv, GemmWorking,
         G!WriteC
<1>2. /\ write_row_index \in 0 .. r - 1 /\ write_column_index \in 0 .. c - 1
      /\ outputs_written = BeforeTile + (write_row_index * c + write_column_index)
  BY <1>1 DEF GemmInv, GemmWorking, WrittenInTile
<1>3. /\ r \in 1 .. active.m - tile_row_base /\ c \in 1 .. active.n - tile_column_base
      /\ r < active.m - tile_row_base => r = Gemm.tile_m
      /\ c < active.n - tile_column_base => c = Gemm.tile_n
  BY <1>1, ValidTile
<1>4. /\ active.m \in Nat /\ active.n \in Nat /\ active.k \in Nat \ {0}
      /\ tile_row_base \in Nat /\ tile_column_base \in Nat
  BY <1>1 DEF GemmAdmitted, TileAt
<1>5. r \in Nat \ {0} /\ c \in Nat \ {0} /\ BeforeTile \in Nat
  BY <1>3, <1>4 DEF BeforeTile
<1> DEFINE tile_done == write_column_index + 1 >= c /\ write_row_index + 1 >= r
<1>6. CASE ~tile_done
  <2>1. G!NextOutput
    BY <1>6 DEF G!OutputWritten
  <2>2. /\ UNCHANGED <<tile_row_base, tile_column_base, k_index>>
        /\ state' = "GEMM_WRITE_REQUEST"
    BY <2>1 DEF G!NextOutput, G!Proceed, G!loadVars, G!tileVars
  <2>3. GemmAdmitted' /\ TileAt' /\ UNCHANGED <<r, c, BeforeTile>>
    BY <1>1, <2>2, TileKept
  <2>4. /\ write_row_index' \in 0 .. r - 1 /\ write_column_index' \in 0 .. c - 1
        /\ write_row_index' * c + write_column_index'
             = write_row_index * c + write_column_index + 1
    <3> HIDE DEF r, c
    <3>1. CASE write_column_index + 1 < c
      BY <1>2, <1>5, <2>1, <3>1 DEF G!NextOutput, r, c
    <3>2. CASE ~(write_column_index + 1 < c)
      <4>1. write_row_index' = write_row_index + 1 /\ write_column_index' = 0
        BY <2>1, <3>2 DEF G!NextOutput, c
      <4>2. write_column_index + 1 = c /\ write_row_index + 1 < r
        BY <1>2, <1>5, <1>6, <3>2
      <4>3. (write_row_index + 1) * c = write_row_index * c + c /\ write_row_index * c \in Nat
        BY <1>2, <1>5
      <4> QED BY <1>2, <1>5, <4>1, <4>2, <4>3
    <3> QED BY <3>1, <3>2
  <2>5. write_row_index * c + write_column_index \in Nat
    BY <1>2, <1>5
  <2>6. (outputs_written = BeforeTile + WrittenInTile)'
    <3>1. WrittenInTile' = write_row_index * c + write_column_index + 1
      BY <2>2, <2>3, <2>4 DEF WrittenInTile, G!WriteC
    <3>2. PICK x \in Nat : x = write_row_index * c + write_column_index
      BY <2>5
    <3> QED BY <1>1, <1>2, <1>5, <2>3, <3>1, <3>2
  <2>7. state' \notin G!ReadA \cup G!ReadB
    BY <2>2 DEF G!ReadA, G!ReadB
  <2> QED BY <1>1, <2>3, <2>4, <2>6, <2>7 DEF GemmInv
<1>7. CASE tile_done
  <2>1. write_column_index + 1 = c /\ write_row_index + 1 = r
    BY <1>2, <1>5, <1>7
  <2>2. outputs_written + 1 = tile_row_base * active.n + r * (tile_column_base + c)
    BY <1>1, <1>2, <2>1, TileFinished
  <2>3. CASE outputs_written + 1 = active.m * active.n
    <3>1. state' = "GEMM_RESPONSE"
      BY <1>7, <2>3 DEF G!OutputWritten, G!Finish
    <3> QED BY <1>1, <3>1 DEF GemmInv, GemmWorking, G!ReadA, G!ReadB, G!WriteC
  <2>4. CASE outputs_written + 1 # active.m * active.n
    <3>1. G!NextTile
      BY <1>7, <2>4 DEF G!OutputWritten
    <3>2. state' = "GEMM_READ_A_REQUEST" /\ k_index' = 0 /\ load_row_index' = 0
      BY <3>1 DEF G!NextTile, G!Proceed
    <3>3. GemmAdmitted'
      BY <1>1 DEF GemmAdmitted, G!OutOfBounds
\* The next tile starts in the matrix: the last one would have ended it.
    <3>4. TileAt' /\ BeforeTile' = outputs_written + 1
      <4>1. CASE tile_column_base + c >= active.n
        <5>1. tile_column_base' = 0 /\ tile_row_base' = tile_row_base + Gemm.tile_m
          BY <3>1, <4>1 DEF G!NextTile
        <5>2. tile_column_base + c = active.n
          BY <1>3, <1>4, <4>1
        <5>3. outputs_written + 1 = (tile_row_base + r) * active.n
          BY <1>4, <1>5, <2>2, <5>2
        <5>4. tile_row_base + r < active.m
          <6>1. tile_row_base + r # active.m
            BY <2>4, <5>3
          <6> QED BY <1>3, <1>4, <6>1
        <5>5. r = Gemm.tile_m
          BY <1>3, <1>4, <5>4
        <5>6. TileAt'
          BY <1>1, <1>4, <1>5, <3>2, <5>1, <5>4, <5>5 DEF TileAt, GemmAdmitted
        <5>7. G!valid_tile_rows' \in Nat
          BY <3>3, <5>6, ValidTilePrimed
        <5>8. BeforeTile' = (tile_row_base + r) * active.n
          <6>1. \A x, y \in Nat : y + x * 0 = y
            OBVIOUS
          <6>2. (tile_row_base + r) * active.n \in Nat
            BY <1>4, <1>5
          <6> QED BY <1>1, <5>1, <5>5, <5>7, <6>1, <6>2 DEF BeforeTile
        <5> QED BY <5>3, <5>6, <5>8
      <4>2. CASE ~(tile_column_base + c >= active.n)
        <5>1. tile_column_base' = tile_column_base + Gemm.tile_n /\ tile_row_base' = tile_row_base
          BY <3>1, <4>2 DEF G!NextTile
        <5>2. c = Gemm.tile_n
          BY <1>3, <1>4, <1>5, <4>2
        <5>3. TileAt'
          BY <1>1, <1>4, <1>5, <3>2, <4>2, <5>1, <5>2 DEF TileAt, GemmAdmitted
        <5>4. G!valid_tile_rows' = r
          BY <1>1, <5>1 DEF G!valid_tile_rows
        <5> QED BY <1>1, <2>2, <5>1, <5>2, <5>3, <5>4 DEF BeforeTile
      <4> QED BY <4>1, <4>2
    <3>5. WrittenInTile' = 0
      BY <3>2 DEF WrittenInTile, G!WriteC
    <3>6. (outputs_written = BeforeTile + WrittenInTile)'
      <4>1. outputs_written \in Nat
        BY <1>2, <1>5
      <4> QED BY <1>1, <3>4, <3>5, <4>1
    <3>7. (load_row_index \in 0 .. G!valid_tile_rows - 1)'
      BY <3>2, <3>3, <3>4, ValidTilePrimed
    <3>8. state' \notin G!ReadB \cup G!WriteC
      BY <3>2 DEF G!ReadB, G!WriteC
    <3> QED BY <1>1, <3>3, <3>4, <3>6, <3>7, <3>8 DEF GemmInv
  <2> QED BY <2>3, <2>4
<1> QED BY <1>6, <1>7

\* Every step of the GEMM accelerator keeps its place in its tiles.
LEMMA GemmInductive ==
  ASSUME GemmInv, G!Next
  PROVE  GemmInv'
<1> USE DEF GemmWorking, G!ReadA, G!ReadB, G!WriteC
<1>1. ASSUME NEW command \in G!Offered, G!AcceptCommand(command) PROVE GemmInv'
  BY <1>1, GemmAccepted DEF GemmInv
<1>2. CASE G!AccessFails
  BY <1>2 DEF G!AccessFails, G!MemoryError, G!Finish, GemmInv
<1>3. CASE G!Respond
  BY <1>3 DEF G!Respond, G!Handshake, G!Proceed, GemmInv
<1>4. CASE G!Reset
  BY <1>4 DEF G!Reset, G!CoreReset, GemmInv
<1> QED BY <1>1, <1>2, <1>3, <1>4, GemmReads, GemmWrites DEF G!Next, G!Advance

\* The requests of an admitted command stay in its operands.
LEMMA GemmAccess ==
  ASSUME GemmInv
  PROVE  G!AccessInScratchpad
<1> DEFINE W == Gemm.elements_per_word
           Legal(a) == G!scratchpad_range_is_legal(a - (a % W), W)
<1>1. SUFFICES ASSUME state \in {"GEMM_READ_A_REQUEST", "GEMM_READ_B_REQUEST",
                                 "GEMM_WRITE_REQUEST"}
               PROVE  G!AccessInScratchpad
  BY DEF G!AccessInScratchpad
<1>2. GemmAdmitted /\ TileAt
  BY <1>1 DEF GemmInv, GemmWorking, G!ReadA, G!ReadB, G!WriteC
<1>3. ASSUME NEW base \in Nat, base % W = 0,
             NEW rows \in Nat, NEW columns \in Nat,
             G!scratchpad_range_is_legal(base, G!Storage(rows * columns)),
             NEW row \in 0 .. rows - 1, NEW column \in 0 .. columns - 1
      PROVE  Legal(base + row * columns + column)
  <2>1. row * columns + column \in Nat /\ row * columns + column < rows * columns
        /\ rows * columns \in Nat /\ row * columns \in Nat
    BY ElementInMatrix
  <2> DEFINE offset == row * columns + column
             count == rows * columns
             s == ((count + W - 1) \div W) * W
             a == base + offset
  <2>3. offset \in Nat /\ count \in Nat /\ offset < count /\ W \in Nat \ {0}
    BY <2>1, GemmBuild
  <2>4. a = base + row * columns + column /\ a \in Nat
    BY <2>1
  <2>5. G!Storage(rows * columns) = s
    BY DEF G!Storage
  <2>6. a - (a % W) >= base /\ a - (a % W) + W <= base + s
    <3> HIDE DEF offset, count, W
    <3> QED BY <1>3, <2>3, WordOfElement
  <2> HIDE DEF offset, count, a, W
  <2>7. s \in Nat /\ a % W \in 0 .. W - 1
    BY <2>3, <2>4, StorageNatural, Division
  <2> HIDE DEF s
  <2>8. Gemm.spm.base \in Nat /\ Gemm.spm.size \in Nat
    BY GemmBuild
  <2>9. Gemm.spm.base <= base /\ base + s <= Gemm.spm.base + Gemm.spm.size
    BY <1>3, <2>5 DEF G!scratchpad_range_is_legal
  <2>10. G!scratchpad_range_is_legal(a - (a % W), W)
    BY <2>3, <2>4, <2>6, <2>7, <2>8, <2>9 DEF G!scratchpad_range_is_legal
  <2> QED BY <2>4, <2>10
<1>4. /\ G!valid_tile_rows \in 1 .. active.m - tile_row_base
      /\ G!valid_tile_columns \in 1 .. active.n - tile_column_base
  BY <1>2, ValidTile
<1>n. active.m \in Nat /\ active.n \in Nat /\ tile_row_base \in Nat /\ tile_column_base \in Nat
  BY <1>2 DEF GemmAdmitted, TileAt
<1>8. SUFFICES Legal(G!current_element_address)
  <2>1. state = "GEMM_WRITE_REQUEST" =>
          write_row_index < G!valid_tile_rows /\ write_column_index < G!valid_tile_columns
    BY <1>4, <1>n DEF GemmInv, G!WriteC
  <2> QED BY <2>1 DEF G!AccessInScratchpad, G!current_word_address, G!current_lane
<1> HIDE DEF Legal
<1>5. CASE state = "GEMM_READ_A_REQUEST"
  <2>1. tile_row_base + load_row_index \in 0 .. active.m - 1
    BY <1>2, <1>4, <1>5 DEF GemmInv, G!ReadA, TileAt, GemmAdmitted
  <2>2. G!current_element_address
          = active.src0 + (tile_row_base + load_row_index) * active.k + k_index
    BY <1>5 DEF G!current_element_address, G!matrix_element_address, G!ReadB, G!WriteC
  <2> QED BY <1>2, <1>3, <2>1, <2>2 DEF GemmAdmitted, TileAt, G!OutOfBounds, G!AStorage,
                                               G!address_is_word_aligned
<1>6. CASE state = "GEMM_READ_B_REQUEST"
  <2>1. tile_column_base + load_column_index \in 0 .. active.n - 1
    BY <1>2, <1>4, <1>6 DEF GemmInv, G!ReadB, TileAt, GemmAdmitted
  <2>2. G!current_element_address
          = active.src1 + k_index * active.n + (tile_column_base + load_column_index)
    BY <1>6 DEF G!current_element_address, G!matrix_element_address, G!ReadB, G!WriteC
  <2> QED BY <1>2, <1>3, <2>1, <2>2 DEF GemmAdmitted, TileAt, G!OutOfBounds, G!BStorage,
                                               G!address_is_word_aligned
<1>7. CASE state = "GEMM_WRITE_REQUEST"
  <2>1. /\ tile_row_base + write_row_index \in 0 .. active.m - 1
        /\ tile_column_base + write_column_index \in 0 .. active.n - 1
    BY <1>2, <1>4, <1>7 DEF GemmInv, G!WriteC, TileAt, GemmAdmitted
  <2>2. G!current_element_address
          = active.dst + (tile_row_base + write_row_index) * active.n
              + (tile_column_base + write_column_index)
    BY <1>7 DEF G!current_element_address, G!matrix_element_address, G!ReadB, G!WriteC
  <2> QED BY <1>2, <1>3, <2>1, <2>2 DEF GemmAdmitted, TileAt, G!OutOfBounds, G!CStorage,
                                               G!address_is_word_aligned
<1> QED BY <1>1, <1>5, <1>6, <1>7

----------------------------------------------------------------------------
(* The three together. *)

IInv ==
  /\ kind \in {"vector", "reduction", "gemm"}
  /\ step = "open" =>
       /\ kind = "vector" => VectorInv
       /\ kind = "reduction" => ReductionInv
       /\ kind = "gemm" => GemmInv

\* A test program never becomes the environment of the open builds.
LEMMA TestsStayTests ==
  ASSUME Tested
  PROVE  step' # "open"
<1>1. VT!BenchStep => step' # "open"
  BY DEF Tested, VT!BenchStep, VT!Begin, VT!start_command, VT!tick, VT!accept_request,
         VT!hold_response, VT!finish_command, VT!tick_once, VT!reset, VT!Ended, VT!expect,
         VT!Return, VT!benchVars
<1>2. RT!BenchStep => step' # "open"
  BY DEF Tested, RT!BenchStep, RT!Begin, RT!start_command, RT!tick, RT!accept_request,
         RT!hold_response, RT!finish_command, RT!tick_once, RT!reset, RT!Ended, RT!expect,
         RT!Return, RT!benchVars
<1>3. GT!BenchStep => step' # "open"
  BY DEF Tested, GT!BenchStep, GT!Begin, GT!start_command, GT!tick, GT!accept_request,
         GT!hold_response, GT!finish_command, GT!tick_once, GT!reset, GT!Ended, GT!expect,
         GT!Return, GT!benchVars
<1> QED BY <1>1, <1>2, <1>3 DEF Tested, VectorTest, ReductionTest, GemmTest

\* The invariant of the three is inductive, the bench included.
LEMMA Inductive ==
  /\ Init => IInv
  /\ IInv /\ [Next]_vars => IInv'
<1>1. Init => IInv
  <2>1. V!Init => VectorInv
    BY DEF V!Init, V!CoreInit, VectorInv, VectorWorking, V!RequestStates, V!ReadStates
  <2>2. R!Init => ReductionInv
    BY DEF R!Init, R!CoreInit, ReductionInv, ReductionWorking, ReductionReading
  <2>3. G!Init => GemmInv
    BY DEF G!Init, G!CoreInit, GemmInv, GemmWorking, G!ReadA, G!ReadB, G!WriteC
  <2>4. /\ VT!BenchInit(VT!Tests) => step # "open"
        /\ RT!BenchInit(RT!Tests) => step # "open"
        /\ GT!BenchInit(GT!Tests) => step # "open"
    BY DEF VT!BenchInit, RT!BenchInit, GT!BenchInit
  <2> QED BY <2>1, <2>2, <2>3, <2>4 DEF Init, IInv
<1>2. ASSUME IInv, Tested PROVE IInv'
  BY <1>2, TestsStayTests DEF IInv, Tested, OthersUnchanged
<1>3. ASSUME IInv, Open(VectorStep \/ ReductionStep \/ GemmStep) PROVE IInv'
  <2>1. step = "open" /\ kind' = kind
    BY <1>3 DEF Open, OthersUnchanged
  <2>2. CASE VectorStep
    BY <1>3, <2>1, <2>2, VectorInductive DEF VectorStep, IInv
  <2>3. CASE ReductionStep
    BY <1>3, <2>1, <2>3, ReductionInductive DEF ReductionStep, IInv
  <2>4. CASE GemmStep
    BY <1>3, <2>1, <2>4, GemmInductive DEF GemmStep, IInv
  <2> QED BY <1>3, <2>2, <2>3, <2>4 DEF Open
<1>4. ASSUME IInv, UNCHANGED vars PROVE IInv'
  <2>1. UNCHANGED <<kind, step, state, accepted, active>>
    BY <1>4 DEF vars, core, bench
  <2>2. VectorInv => VectorInv'
    <3>1. VectorStays
      BY <1>4 DEF vars, core, vectorOnly, shared, VectorStays
    <3> QED BY <2>1, <3>1, VectorPlaceKept DEF VectorInv
  <2>3. ReductionInv => ReductionInv'
    <3>1. ReductionStays
      BY <1>4 DEF vars, core, reductionOnly, shared, ReductionStays
    <3> QED BY <2>1, <3>1, ReductionPlaceKept DEF ReductionInv, ReductionStays
  <2>4. GemmInv => GemmInv'
    <3>1. UNCHANGED <<tile_row_base, tile_column_base, k_index, load_row_index,
                      load_column_index, write_row_index, write_column_index,
                      outputs_written>>
      BY <1>4 DEF vars, gemmOnly
    <3> QED BY <2>1, <3>1, TileKept DEF GemmInv, WrittenInTile
  <2> QED BY <1>4, <2>1, <2>2, <2>3, <2>4 DEF IInv
<1> QED BY <1>1, <1>2, <1>3, <1>4 DEF Next

\* No accelerator requests a word outside its scratchpad, whatever descriptor
\* it accepts: validation bounds the operands, the walk over words, tiles and
\* inner indices stays within them, and rounding to words adds nothing.
THEOREM AccessesAreLegal == Spec => []AccessInScratchpad
<1>1. IInv => AccessInScratchpad
  <2>1. SUFFICES ASSUME IInv, step = "open" PROVE AccessInScratchpad
    BY DEF AccessInScratchpad
  <2>2. CASE kind = "vector"
    BY <2>1, <2>2, VectorAccess DEF IInv, AccessInScratchpad
  <2>3. CASE kind = "reduction"
    BY <2>1, <2>3, ReductionAccess DEF IInv, AccessInScratchpad
  <2>4. CASE kind = "gemm"
    BY <2>1, <2>4, GemmAccess DEF IInv, AccessInScratchpad
  <2> QED BY <2>1, <2>2, <2>3, <2>4 DEF IInv
<1> QED BY <1>1, Inductive, PTL DEF Spec

----------------------------------------------------------------------------
(* Progress. *)

\* What remains of a command is counted in three digits: results or elements
\* still to come, terms still to be added to the results of the tile at hand,
\* and steps until one of these changes.
ResultsLeft ==
  IF state \in VectorWorking \cup ReductionReading THEN elements_remaining
  ELSE IF state \in GemmWorking THEN active.m * active.n - outputs_written
  ELSE 0

TermsLeft == IF state \in GemmWorking \ G!WriteC THEN active.k - k_index ELSE 0

\* The elements of A and of B the tile still needs for this term.
ElementsLeft ==
  IF state \in G!ReadA THEN G!valid_tile_rows - load_row_index + G!valid_tile_columns
  ELSE IF state \in G!ReadB THEN G!valid_tile_columns - load_column_index
  ELSE 0

\* The steps in each state, until a response, a word, a term or an output is
\* done with.
Steps ==
  [VECTOR_SCALAR_REQUEST |-> 9, VECTOR_SCALAR_RESPONSE |-> 8,
   VECTOR_SOURCE0_REQUEST |-> 7, VECTOR_SOURCE0_RESPONSE |-> 6,
   VECTOR_SOURCE1_REQUEST |-> 5, VECTOR_SOURCE1_RESPONSE |-> 4,
   VECTOR_EXECUTE |-> 3, VECTOR_WRITE_REQUEST |-> 2, VECTOR_WRITE_RESPONSE |-> 1,
   VECTOR_RESPONSE |-> 1, VECTOR_IDLE |-> 0,
   REDUCTION_READ_REQUEST |-> 3, REDUCTION_READ_RESPONSE |-> 2, REDUCTION_ACCUMULATE |-> 1,
   REDUCTION_WRITE_REQUEST |-> 3, REDUCTION_WRITE_RESPONSE |-> 2,
   REDUCTION_RESPONSE |-> 1, REDUCTION_IDLE |-> 0,
   GEMM_READ_A_REQUEST |-> 2 * ElementsLeft + 1, GEMM_READ_A_RESPONSE |-> 2 * ElementsLeft,
   GEMM_READ_B_REQUEST |-> 2 * ElementsLeft + 1, GEMM_READ_B_RESPONSE |-> 2 * ElementsLeft,
   GEMM_MAC |-> 1, GEMM_WRITE_REQUEST |-> 2, GEMM_WRITE_RESPONSE |-> 1,
   GEMM_RESPONSE |-> 1, GEMM_IDLE |-> 0]

StepsLeft == Steps[state]

\* A step leaves less of the command, by the first digit in which it differs.
Nearer ==
  \/ ResultsLeft' < ResultsLeft
  \/ ResultsLeft' = ResultsLeft /\ TermsLeft' < TermsLeft
  \/ UNCHANGED <<ResultsLeft, TermsLeft>> /\ StepsLeft' < StepsLeft

\* Nothing takes a command back, and whatever is not a stalled handshake takes
\* it nearer to its end, where nothing is left and the accelerator is idle.
CommandProgress ==
  step = "open" =>
    /\ ResultsLeft \in Nat /\ TermsLeft \in Nat /\ StepsLeft \in Nat
    /\ Idle <=> StepsLeft = 0
    /\ ~Idle => Nearer \/ UNCHANGED <<ResultsLeft, TermsLeft, StepsLeft>>
    /\ Open(VectorAdvance \/ ReductionAdvance \/ GemmAdvance) => Nearer

\* The states an accelerator can be in.
VectorStates == VectorWorking \cup {"VECTOR_IDLE", "VECTOR_RESPONSE"}
ReductionStates == ReductionWorking \cup {"REDUCTION_IDLE", "REDUCTION_RESPONSE"}
GemmStates == GemmWorking \cup {"GEMM_IDLE", "GEMM_RESPONSE"}

StatesInv ==
  step = "open" =>
    /\ kind = "vector" => state \in VectorStates
    /\ kind = "reduction" => state \in ReductionStates
    /\ kind = "gemm" => state \in GemmStates

\* A command at work has results left, and only an idle accelerator no steps.
CountsLeft(working) ==
  /\ ResultsLeft \in Nat /\ TermsLeft \in Nat /\ StepsLeft \in Nat
  /\ Idle <=> StepsLeft = 0
  /\ ResultsLeft >= 1 <=> state \in working

\* What a step does to the counts: it never goes back, and goes on unless it
\* waits.
GoesOn(advance) ==
  /\ ~Idle => Nearer \/ UNCHANGED <<ResultsLeft, TermsLeft, StepsLeft>>
  /\ advance => Nearer

\* Of the vector accelerator the elements count, and no terms.
VectorCounts ==
  /\ CountsLeft(VectorWorking)
  /\ state \in VectorWorking => ResultsLeft = elements_remaining
  /\ TermsLeft = 0

\* A vector command at work has elements left, and steps in every state.
LEMMA VectorLeft ==
  ASSUME VectorInv, state \in VectorStates
  PROVE  VectorCounts
<1> USE DEF VectorStates, VectorWorking, V!RequestStates, V!ReadStates
<1>1. state \in VectorWorking => elements_remaining \in Nat /\ elements_remaining >= 1
  <2> SUFFICES ASSUME state \in VectorWorking
               PROVE  elements_remaining \in Nat /\ elements_remaining >= 1
    OBVIOUS
  <2>1. PICK words \in Nat : VectorAt(words)
    BY DEF VectorInv
  <2>2. Vector.elements_per_word \in Nat /\ active.length \in Nat
    BY ParametersValid DEF V!CoreParameters, VectorInv, VectorAdmitted
  <2>3. words * Vector.elements_per_word \in Nat
    BY <2>2
  <2> QED BY <2>1, <2>2, <2>3 DEF VectorAt
<1>2. state \notin GemmWorking /\ TermsLeft = 0
  BY DEF TermsLeft, GemmWorking, G!ReadA, G!ReadB, G!WriteC
<1>3. StepsLeft \in Nat /\ (Idle <=> StepsLeft = 0)
  BY DEF StepsLeft, Steps, Idle
<1>4. /\ state \in VectorWorking => ResultsLeft = elements_remaining
      /\ state \notin VectorWorking => ResultsLeft = 0
  BY <1>2 DEF ResultsLeft, ReductionReading
<1> QED BY <1>1, <1>2, <1>3, <1>4 DEF CountsLeft, VectorCounts

\* Word by word, and within a word step by step.
LEMMA VectorGoesOn ==
  ASSUME VectorInv, VectorInv', V!Next, state \in VectorStates
  PROVE  state' \in VectorStates /\ GoesOn(V!Advance)
<1> USE DEF VectorStates, VectorWorking, V!RequestStates, V!ReadStates, V!Handshake,
            V!Proceed, V!Finish
<1>1. state' \in VectorStates
  BY DEF V!Next, V!Advance, V!AcceptCommand, V!Accept, V!Wait, V!Hold, V!RequestFire,
         V!ScalarRead, V!Source0Read, V!Source1Read, V!Execute, V!WordWritten,
         V!AccessFails, V!MemoryError, V!Respond, V!Reset, V!CoreReset
<1>2. VectorCounts
  BY VectorLeft
<1>3. VectorCounts'
  <2>1. (VectorInv /\ state \in VectorStates => VectorCounts)'
    BY VectorLeft, PTL
  <2> QED BY <1>1, <2>1
<1>4. /\ ResultsLeft \in Nat /\ ResultsLeft' \in Nat /\ TermsLeft = 0 /\ TermsLeft' = 0
      /\ StepsLeft \in Nat /\ StepsLeft' \in Nat
      /\ ~Idle => StepsLeft >= 1
      /\ state \in VectorWorking => ResultsLeft = elements_remaining /\ ResultsLeft >= 1
      /\ state' \in VectorWorking => ResultsLeft' = elements_remaining'
      /\ state' \notin VectorWorking => ResultsLeft' = 0
  BY <1>2, <1>3 DEF VectorCounts, CountsLeft
<1>5. ASSUME V!RequestFire \/ V!ScalarRead \/ V!Source0Read \/ V!Source1Read \/ V!Execute
      PROVE  Nearer
  <2>1. /\ state \in VectorWorking /\ state' \in VectorWorking
        /\ elements_remaining' = elements_remaining
    BY <1>5 DEF V!RequestFire, V!ScalarRead, V!Source0Read, V!Source1Read, V!Execute,
                V!vectorVars, V!addressVars
  <2>2. StepsLeft' < StepsLeft
    BY <1>5 DEF V!RequestFire, V!ScalarRead, V!Source0Read, V!Source1Read, V!Execute,
                StepsLeft, Steps
  <2> QED BY <1>4, <2>1, <2>2 DEF Nearer
<1>6. ASSUME V!WordWritten PROVE Nearer
  <2>1. CASE V!final_word
    BY <1>4, <1>6, <2>1 DEF V!WordWritten, Nearer
  <2>2. CASE ~V!final_word
    <3>1. /\ elements_remaining' = elements_remaining - Vector.elements_per_word
          /\ state \in VectorWorking /\ state' \in VectorWorking
      BY <1>6, <2>2 DEF V!WordWritten
    <3>2. Vector.elements_per_word \in Nat \ {0}
      BY ParametersValid DEF V!CoreParameters
    <3> QED BY <1>4, <3>1, <3>2 DEF Nearer
  <2> QED BY <2>1, <2>2
<1>7. ASSUME V!AccessFails PROVE Nearer
  BY <1>4, <1>7 DEF V!AccessFails, V!MemoryError, Nearer
<1>8. ASSUME V!Respond PROVE Nearer
  <2>1. state = "VECTOR_RESPONSE" /\ state' = "VECTOR_IDLE"
    BY <1>8 DEF V!Respond
  <2>2. StepsLeft = 1 /\ StepsLeft' = 0
    BY <2>1 DEF StepsLeft, Steps
  <2>3. ResultsLeft = 0 /\ ResultsLeft' = 0
    BY <1>2, <1>4, <2>1 DEF VectorCounts, CountsLeft
  <2> QED BY <1>4, <2>2, <2>3 DEF Nearer
<1>9. ASSUME V!Reset, ~Idle PROVE Nearer
  <2>1. state' = "VECTOR_IDLE"
    BY <1>9 DEF V!Reset, V!CoreReset
  <2>2. ResultsLeft' = 0 /\ StepsLeft' = 0
    BY <1>4, <2>1 DEF StepsLeft, Steps
  <2> QED BY <1>4, <1>9, <2>2 DEF Nearer
<1>10. ASSUME V!Wait PROVE UNCHANGED <<ResultsLeft, TermsLeft, StepsLeft>>
  <2>1. state' = state /\ elements_remaining' = elements_remaining
    BY <1>10 DEF V!Wait, V!Hold, V!vectorVars
  <2>2. StepsLeft' = StepsLeft
    BY <2>1 DEF StepsLeft, Steps
  <2>3. ResultsLeft' = ResultsLeft
    BY <1>4, <2>1, <1>2 DEF VectorCounts, CountsLeft
  <2> QED BY <1>4, <2>2, <2>3
<1>11. ASSUME \E command \in V!Offered : V!AcceptCommand(command) PROVE Idle
  BY <1>11 DEF V!AcceptCommand, V!Accept, Idle
<1> QED BY <1>1, <1>5, <1>6, <1>7, <1>8, <1>9, <1>10, <1>11 DEF V!Next, V!Advance, GoesOn

\* While the reduction reads its source, it has elements left.
ReductionCounts ==
  /\ CountsLeft(ReductionReading)
  /\ state \in ReductionReading => ResultsLeft = elements_remaining
  /\ TermsLeft = 0

\* It then has a word to accumulate, or else only the result to write.
LEMMA ReductionLeft ==
  ASSUME ReductionInv, state \in ReductionStates
  PROVE  ReductionCounts
<1> USE DEF ReductionStates, ReductionWorking, ReductionReading
<1>1. state \in ReductionReading => elements_remaining \in Nat /\ elements_remaining >= 1
  <2> SUFFICES ASSUME state \in ReductionReading
               PROVE  elements_remaining \in Nat /\ elements_remaining >= 1
    OBVIOUS
  <2>1. PICK words \in Nat : ReductionAt(words)
    BY DEF ReductionInv
  <2>2. Reduction.elements_per_word \in Nat /\ active.length \in Nat
    BY ParametersValid DEF R!CoreParameters, ReductionInv, ReductionAdmitted
  <2>3. words * Reduction.elements_per_word \in Nat
    BY <2>2
  <2> QED BY <2>1, <2>2, <2>3 DEF ReductionAt
<1>2. state \notin GemmWorking /\ TermsLeft = 0
  BY DEF TermsLeft, GemmWorking, G!ReadA, G!ReadB, G!WriteC
<1>3. StepsLeft \in Nat /\ (Idle <=> StepsLeft = 0)
  BY DEF StepsLeft, Steps, Idle
<1>4. /\ state \in ReductionReading => ResultsLeft = elements_remaining
      /\ state \notin ReductionReading => ResultsLeft = 0
  BY <1>2 DEF ResultsLeft, VectorWorking, V!RequestStates, V!ReadStates
<1> QED BY <1>1, <1>2, <1>3, <1>4 DEF CountsLeft, ReductionCounts

\* Word by word, then the result.
LEMMA ReductionGoesOn ==
  ASSUME ReductionInv, ReductionInv', R!Next, state \in ReductionStates
  PROVE  state' \in ReductionStates /\ GoesOn(R!Advance)
<1> USE DEF ReductionStates, ReductionWorking, ReductionReading, R!Handshake, R!Proceed,
            R!Finish
<1>1. state' \in ReductionStates
  BY DEF R!Next, R!Advance, R!AcceptCommand, R!Accept, R!Wait, R!Hold, R!RequestStates,
         R!ResponseStates, R!RequestFire, R!WordRead, R!Accumulate, R!ResultWritten,
         R!AccessFails, R!MemoryError, R!Respond, R!Reset, R!CoreReset
<1>2. ReductionCounts
  BY ReductionLeft
<1>3. ReductionCounts'
  <2>1. (ReductionInv /\ state \in ReductionStates => ReductionCounts)'
    BY ReductionLeft, PTL
  <2> QED BY <1>1, <2>1
<1>4. /\ ResultsLeft \in Nat /\ ResultsLeft' \in Nat /\ TermsLeft = 0 /\ TermsLeft' = 0
      /\ StepsLeft \in Nat /\ StepsLeft' \in Nat
      /\ ~Idle => StepsLeft >= 1
      /\ state \in ReductionReading => ResultsLeft = elements_remaining /\ ResultsLeft >= 1
      /\ state \notin ReductionReading => ResultsLeft = 0
      /\ state' \in ReductionReading => ResultsLeft' = elements_remaining'
      /\ state' \notin ReductionReading => ResultsLeft' = 0
  BY <1>2, <1>3 DEF ReductionCounts, CountsLeft
<1>5. ASSUME R!RequestFire \/ R!WordRead PROVE Nearer
  <2>1. /\ state \in ReductionReading <=> state' \in ReductionReading
        /\ elements_remaining' = elements_remaining
    BY <1>5 DEF R!RequestFire, R!WordRead, R!reductionVars, R!addressVars
  <2>2. StepsLeft' < StepsLeft
    BY <1>5 DEF R!RequestFire, R!WordRead, StepsLeft, Steps
  <2> QED BY <1>4, <2>1, <2>2 DEF Nearer
<1>6. ASSUME R!Accumulate PROVE Nearer
  <2>1. CASE R!final_word
    BY <1>4, <1>6, <2>1 DEF R!Accumulate, Nearer
  <2>2. CASE ~R!final_word
    <3>1. /\ elements_remaining' = elements_remaining - Reduction.elements_per_word
          /\ state \in ReductionReading /\ state' \in ReductionReading
      BY <1>6, <2>2 DEF R!Accumulate
    <3>2. Reduction.elements_per_word \in Nat \ {0}
      BY ParametersValid DEF R!CoreParameters
    <3> QED BY <1>4, <3>1, <3>2 DEF Nearer
  <2> QED BY <2>1, <2>2
<1>7. ASSUME R!ResultWritten \/ R!AccessFails \/ R!Respond PROVE Nearer
  <2>1. /\ state' \notin ReductionReading
        /\ state \notin ReductionReading => StepsLeft' < StepsLeft
    BY <1>7 DEF R!ResultWritten, R!AccessFails, R!MemoryError, R!Respond, StepsLeft, Steps
  <2> QED BY <1>4, <2>1 DEF Nearer
<1>8. ASSUME R!Reset, ~Idle PROVE Nearer
  <2>1. state' = "REDUCTION_IDLE"
    BY <1>8 DEF R!Reset, R!CoreReset
  <2>2. ResultsLeft' = 0 /\ StepsLeft' = 0
    BY <1>4, <2>1 DEF StepsLeft, Steps
  <2> QED BY <1>4, <1>8, <2>2 DEF Nearer
<1>9. ASSUME R!Wait PROVE UNCHANGED <<ResultsLeft, TermsLeft, StepsLeft>>
  <2>1. state' = state /\ elements_remaining' = elements_remaining
    BY <1>9 DEF R!Wait, R!Hold, R!reductionVars
  <2>2. StepsLeft' = StepsLeft
    BY <2>1 DEF StepsLeft, Steps
  <2> QED BY <1>4, <2>1, <2>2
<1>10. ASSUME \E command \in R!Offered : R!AcceptCommand(command) PROVE Idle
  BY <1>10 DEF R!AcceptCommand, R!Accept, Idle
<1> QED BY <1>1, <1>5, <1>6, <1>7, <1>8, <1>9, <1>10 DEF R!Next, R!Advance, GoesOn

\* The outputs counted as written are never all of the matrix while the
\* command works: the tile at hand has some left.
LEMMA GemmOutputsLeft ==
  ASSUME GemmInv, state \in GemmWorking
  PROVE  outputs_written \in Nat /\ active.m * active.n \in Nat
         /\ outputs_written < active.m * active.n
<1> DEFINE r == G!valid_tile_rows
           c == G!valid_tile_columns
<1>1. GemmAdmitted /\ TileAt /\ outputs_written = BeforeTile + WrittenInTile
  BY DEF GemmInv
<1>2. /\ r \in 1 .. active.m - tile_row_base /\ c \in 1 .. active.n - tile_column_base
      /\ active.m \in Nat /\ active.n \in Nat /\ tile_row_base \in Nat
      /\ tile_column_base \in Nat
  BY <1>1, ValidTile DEF GemmAdmitted, TileAt
<1>3. r \in Nat \ {0} /\ c \in Nat \ {0} /\ r * c \in Nat
  BY <1>2
<1>4. WrittenInTile \in Nat /\ WrittenInTile < r * c
  <2>1. CASE state \in G!WriteC
    <3>1. write_row_index \in 0 .. r - 1 /\ write_column_index \in 0 .. c - 1
      BY <2>1 DEF GemmInv
    <3>2. WrittenInTile = write_row_index * c + write_column_index
      BY <2>1 DEF WrittenInTile
    <3> HIDE DEF r, c
    <3>3. PICK rest \in Nat : r = write_row_index + 1 + rest
      <4>1. /\ r - 1 - write_row_index \in Nat
            /\ r = write_row_index + 1 + (r - 1 - write_row_index)
        BY <1>3, <3>1
      <4> QED BY <4>1
    <3>4. write_row_index \in Nat /\ write_column_index \in Nat /\ write_column_index < c
      BY <1>3, <3>1
    <3>5. r * c = write_row_index * c + c + rest * c /\ rest * c \in Nat
          /\ write_row_index * c \in Nat
      BY <1>3, <3>3, <3>4
    <3> QED BY <1>3, <3>2, <3>4, <3>5
  <2>2. CASE state \notin G!WriteC
    <3>1. r * c > 0
      BY <1>3
    <3> QED BY <2>2, <3>1 DEF WrittenInTile
  <2> QED BY <2>1, <2>2
<1> HIDE DEF r, c
<1>5. PICK right \in Nat : active.n = tile_column_base + c + right
  <2>1. /\ active.n - tile_column_base - c \in Nat
        /\ active.n = tile_column_base + c + (active.n - tile_column_base - c)
    BY <1>2, <1>3
  <2> QED BY <2>1
<1>6. PICK below \in Nat : active.m = tile_row_base + r + below
  <2>1. /\ active.m - tile_row_base - r \in Nat
        /\ active.m = tile_row_base + r + (active.m - tile_row_base - r)
    BY <1>2, <1>3
  <2> QED BY <2>1
<1>7. active.m * active.n = tile_row_base * active.n + r * active.n + below * active.n
      /\ tile_row_base * active.n \in Nat /\ r * active.n \in Nat /\ below * active.n \in Nat
  BY <1>2, <1>3, <1>6
<1>8. r * active.n = r * tile_column_base + r * c + r * right
      /\ r * tile_column_base \in Nat /\ r * right \in Nat
  BY <1>2, <1>3, <1>5
<1>9. BeforeTile = tile_row_base * active.n + r * tile_column_base
  BY DEF BeforeTile, r
<1> QED BY <1>1, <1>3, <1>4, <1>7, <1>8, <1>9

\* The outputs left, and while operands are read the terms left.
GemmCounts ==
  /\ CountsLeft(GemmWorking)
  /\ state \in GemmWorking => ResultsLeft = active.m * active.n - outputs_written
  /\ state \in GemmWorking \ G!WriteC => TermsLeft = active.k - k_index
  /\ TermsLeft >= 1 <=> state \in GemmWorking \ G!WriteC

\* A product at work has outputs left, and terms until it writes.
LEMMA GemmLeft ==
  ASSUME GemmInv, state \in GemmStates
  PROVE  GemmCounts
<1> USE DEF GemmStates, GemmWorking, G!ReadA, G!ReadB, G!WriteC
<1>1. CASE state \in GemmWorking
  <2>1. /\ outputs_written \in Nat /\ active.m * active.n \in Nat
        /\ outputs_written < active.m * active.n
    BY <1>1, GemmOutputsLeft
  <2>2. ResultsLeft = active.m * active.n - outputs_written
    BY <1>1 DEF ResultsLeft, VectorWorking, V!RequestStates, V!ReadStates, ReductionReading
  <2>3. GemmAdmitted /\ TileAt
    BY <1>1 DEF GemmInv
  <2>4. active.k - k_index \in Nat /\ active.k - k_index >= 1
    BY <2>3 DEF GemmAdmitted, TileAt
  <2>5. TermsLeft = IF state \in G!WriteC THEN 0 ELSE active.k - k_index
    BY <1>1 DEF TermsLeft
  <2>6. G!valid_tile_rows \in Nat \ {0} /\ G!valid_tile_columns \in Nat \ {0}
    BY <2>3, ValidTile DEF GemmAdmitted, TileAt
  <2>7. state \in G!ReadA \cup G!ReadB => ElementsLeft \in Nat \ {0}
    BY <2>6 DEF GemmInv, ElementsLeft
  <2>8. StepsLeft \in Nat \ {0}
    BY <1>1, <2>6, <2>7 DEF StepsLeft, Steps
  <2> QED BY <1>1, <2>1, <2>2, <2>4, <2>5, <2>8 DEF GemmCounts, CountsLeft, Idle
<1>2. CASE state \notin GemmWorking
  <2>1. ResultsLeft = 0 /\ TermsLeft = 0
    BY <1>2 DEF ResultsLeft, TermsLeft, VectorWorking, V!RequestStates, V!ReadStates,
                ReductionReading
  <2>2. StepsLeft \in Nat /\ (Idle <=> StepsLeft = 0)
    BY <1>2 DEF StepsLeft, Steps, Idle
  <2> QED BY <1>2, <2>1, <2>2 DEF GemmCounts, CountsLeft
<1> QED BY <1>1, <1>2

\* A request, or an element read, takes the tile a step nearer to its term.
LEMMA GemmReadsOn ==
  ASSUME GemmInv, GemmInv', GemmCounts, GemmCounts',
         G!RequestFire \/ G!ElementOfARead \/ G!ElementOfBRead
  PROVE  Nearer
<1> USE DEF GemmWorking, G!ReadA, G!ReadB, G!WriteC, G!Handshake, G!Proceed, G!gemmVars,
            G!loadVars, G!writeVars, G!tileVars
<1>1. /\ state \in GemmWorking /\ state' \in GemmWorking
      /\ state \in G!WriteC <=> state' \in G!WriteC
      /\ UNCHANGED <<active, outputs_written, k_index, tile_row_base, tile_column_base>>
  BY DEF G!RequestFire, G!ElementOfARead, G!ElementOfBRead
<1>2. ResultsLeft' = ResultsLeft /\ TermsLeft' = TermsLeft
  BY <1>1 DEF GemmCounts, CountsLeft
<1>3. G!valid_tile_rows' = G!valid_tile_rows /\ G!valid_tile_columns' = G!valid_tile_columns
  BY <1>1, TileKept
<1>4. GemmAdmitted /\ TileAt
  BY <1>1 DEF GemmInv
<1>5. G!valid_tile_rows \in Nat \ {0} /\ G!valid_tile_columns \in Nat \ {0}
  BY <1>4, ValidTile DEF GemmAdmitted, TileAt
<1>6. /\ state \in G!ReadA => load_row_index \in Nat /\ load_row_index < G!valid_tile_rows
      /\ state \in G!ReadB => load_column_index \in Nat
                              /\ load_column_index < G!valid_tile_columns
  BY <1>5 DEF GemmInv
<1>7. StepsLeft' < StepsLeft
  <2>1. CASE G!RequestFire
    <3>1. load_row_index' = load_row_index /\ load_column_index' = load_column_index
      BY <2>1 DEF G!RequestFire
    <3> QED BY <1>3, <1>5, <1>6, <2>1, <3>1
            DEF G!RequestFire, StepsLeft, Steps, ElementsLeft
  <2>2. CASE G!ElementOfARead
    <3>1. StepsLeft = 2 * (G!valid_tile_rows - load_row_index + G!valid_tile_columns)
      BY <2>2 DEF G!ElementOfARead, StepsLeft, Steps, ElementsLeft
    <3>2. CASE load_row_index + 1 >= G!valid_tile_rows
      <4>1. state' = "GEMM_READ_B_REQUEST" /\ load_column_index' = 0
        BY <2>2, <3>2 DEF G!ElementOfARead
      <4>2. StepsLeft' = 2 * (G!valid_tile_columns - 0) + 1
        BY <1>3, <4>1 DEF StepsLeft, Steps, ElementsLeft
      <4>3. load_row_index \in Nat /\ load_row_index < G!valid_tile_rows
        BY <1>6, <2>2 DEF G!ElementOfARead
      <4> QED BY <1>5, <3>1, <4>2, <4>3
    <3>3. CASE ~(load_row_index + 1 >= G!valid_tile_rows)
      <4>1. state' = "GEMM_READ_A_REQUEST" /\ load_row_index' = load_row_index + 1
        BY <2>2, <3>3 DEF G!ElementOfARead
      <4>2. StepsLeft'
              = 2 * (G!valid_tile_rows - (load_row_index + 1) + G!valid_tile_columns) + 1
        BY <1>3, <4>1 DEF StepsLeft, Steps, ElementsLeft
      <4>3. load_row_index \in Nat
        BY <1>6, <2>2 DEF G!ElementOfARead
      <4> QED BY <1>5, <3>1, <4>2, <4>3
    <3> QED BY <3>2, <3>3
  <2>3. CASE G!ElementOfBRead
    <3>1. StepsLeft = 2 * (G!valid_tile_columns - load_column_index)
      BY <2>3 DEF G!ElementOfBRead, StepsLeft, Steps, ElementsLeft
    <3>2. load_column_index \in Nat /\ load_column_index < G!valid_tile_columns
      BY <1>6, <2>3 DEF G!ElementOfBRead
    <3>3. CASE load_column_index + 1 >= G!valid_tile_columns
      <4>1. state' = "GEMM_MAC"
        BY <2>3, <3>3 DEF G!ElementOfBRead
      <4>2. StepsLeft' = 1
        BY <4>1 DEF StepsLeft, Steps
      <4> QED BY <1>5, <3>1, <3>2, <4>2
    <3>4. CASE ~(load_column_index + 1 >= G!valid_tile_columns)
      <4>1. state' = "GEMM_READ_B_REQUEST" /\ load_column_index' = load_column_index + 1
        BY <2>3, <3>4 DEF G!ElementOfBRead
      <4>2. StepsLeft' = 2 * (G!valid_tile_columns - (load_column_index + 1)) + 1
        BY <1>3, <4>1 DEF StepsLeft, Steps, ElementsLeft
      <4> QED BY <1>5, <3>1, <3>2, <4>2
    <3> QED BY <3>3, <3>4
  <2> QED BY <2>1, <2>2, <2>3
<1> QED BY <1>2, <1>7 DEF Nearer

\* Element by element, term by term, output by output.
LEMMA GemmGoesOn ==
  ASSUME GemmInv, GemmInv', G!Next, state \in GemmStates
  PROVE  state' \in GemmStates /\ GoesOn(G!Advance)
<1> USE DEF GemmStates, GemmWorking, G!ReadA, G!ReadB, G!WriteC, G!Handshake, G!Proceed,
            G!Finish
<1>1. state' \in GemmStates
  BY DEF G!Next, G!Advance, G!AcceptCommand, G!Accept, G!Wait, G!Hold, G!RequestFire,
         G!ElementOfARead, G!ElementOfBRead, G!MultiplyAccumulate, G!OutputWritten,
         G!NextOutput, G!NextTile, G!AccessFails, G!MemoryError, G!Respond, G!Reset,
         G!CoreReset
<1>2. GemmCounts
  BY GemmLeft
<1>3. GemmCounts'
  <2>1. (GemmInv /\ state \in GemmStates => GemmCounts)'
    BY GemmLeft, PTL
  <2> QED BY <1>1, <2>1
<1>4. /\ ResultsLeft \in Nat /\ ResultsLeft' \in Nat /\ TermsLeft \in Nat /\ TermsLeft' \in Nat
      /\ StepsLeft \in Nat /\ StepsLeft' \in Nat
      /\ Idle <=> StepsLeft = 0
  BY <1>2, <1>3 DEF GemmCounts, CountsLeft
<1>5. ASSUME G!RequestFire \/ G!ElementOfARead \/ G!ElementOfBRead PROVE Nearer
  BY <1>2, <1>3, <1>5, GemmReadsOn
<1>6. ASSUME G!MultiplyAccumulate PROVE Nearer
  <2>1. /\ state \in GemmWorking \ G!WriteC /\ state' \in GemmWorking
        /\ UNCHANGED <<active, outputs_written>>
    BY <1>6 DEF G!MultiplyAccumulate
  <2>2. ResultsLeft' = ResultsLeft /\ TermsLeft = active.k - k_index /\ TermsLeft >= 1
    BY <1>2, <1>3, <2>1 DEF GemmCounts
  <2>3. CASE k_index + 1 < active.k
    <3>1. state' = "GEMM_READ_A_REQUEST" /\ k_index' = k_index + 1
      BY <1>6, <2>3 DEF G!MultiplyAccumulate
    <3>2. TermsLeft' = active.k - (k_index + 1)
      BY <1>3, <2>1, <3>1 DEF GemmCounts
    <3>3. active.k \in Nat /\ k_index \in Nat
      BY <2>1 DEF GemmInv, GemmAdmitted, TileAt
    <3> QED BY <2>2, <3>2, <3>3 DEF Nearer
  <2>4. CASE ~(k_index + 1 < active.k)
    <3>1. state' = "GEMM_WRITE_REQUEST"
      BY <1>6, <2>4 DEF G!MultiplyAccumulate
    <3>2. TermsLeft' = 0
      BY <3>1 DEF TermsLeft
    <3> QED BY <2>2, <3>2 DEF Nearer
  <2> QED BY <2>3, <2>4
<1>7. ASSUME G!OutputWritten PROVE Nearer
  <2>1. /\ state \in GemmWorking /\ outputs_written' = outputs_written + 1 /\ active' = active
        /\ state' \in GemmWorking \cup {"GEMM_RESPONSE"}
    BY <1>7 DEF G!OutputWritten, G!NextOutput, G!NextTile
  <2>2. /\ outputs_written \in Nat /\ active.m * active.n \in Nat
        /\ ResultsLeft = active.m * active.n - outputs_written /\ ResultsLeft >= 1
    BY <1>2, <2>1, GemmOutputsLeft DEF GemmCounts, CountsLeft
  <2>3. CASE state' \in GemmWorking
    <3>1. ResultsLeft' = active.m * active.n - (outputs_written + 1)
      BY <1>3, <2>1, <2>3 DEF GemmCounts
    <3> QED BY <2>2, <3>1 DEF Nearer
  <2>4. CASE state' = "GEMM_RESPONSE"
    <3>1. ResultsLeft' = 0
      BY <1>3, <1>4, <2>4 DEF GemmCounts, CountsLeft
    <3> QED BY <2>2, <3>1 DEF Nearer
  <2> QED BY <2>1, <2>3, <2>4
<1>8. ASSUME G!AccessFails PROVE Nearer
  <2>1. state \in GemmWorking /\ state' = "GEMM_RESPONSE"
    BY <1>8 DEF G!AccessFails, G!MemoryError
  <2>2. ResultsLeft >= 1 /\ ResultsLeft' = 0
    BY <1>2, <1>3, <1>4, <2>1 DEF GemmCounts, CountsLeft
  <2> QED BY <1>4, <2>2 DEF Nearer
<1>9. ASSUME G!Respond PROVE Nearer
  <2>1. state = "GEMM_RESPONSE" /\ state' = "GEMM_IDLE"
    BY <1>9 DEF G!Respond
  <2>2. StepsLeft = 1 /\ StepsLeft' = 0
    BY <2>1 DEF StepsLeft, Steps
  <2>3. ResultsLeft = 0 /\ ResultsLeft' = 0 /\ TermsLeft = 0 /\ TermsLeft' = 0
    BY <1>2, <1>3, <1>4, <2>1 DEF GemmCounts, CountsLeft
  <2> QED BY <2>2, <2>3 DEF Nearer
<1>10. ASSUME G!Reset, ~Idle PROVE Nearer
  <2>1. state' = "GEMM_IDLE"
    BY <1>10 DEF G!Reset, G!CoreReset
  <2>2. ResultsLeft' = 0 /\ TermsLeft' = 0 /\ StepsLeft' = 0
    BY <1>3, <1>4, <2>1 DEF GemmCounts, CountsLeft, StepsLeft, Steps
  <2> QED BY <1>4, <1>10, <2>2 DEF Nearer
<1>11. ASSUME G!Wait PROVE UNCHANGED <<ResultsLeft, TermsLeft, StepsLeft>>
  <2>1. UNCHANGED <<state, active, G!gemmVars>>
    BY <1>11 DEF G!Wait, G!Hold
  <2>2. UNCHANGED <<G!valid_tile_rows, G!valid_tile_columns>>
    BY <2>1, TileKept DEF G!gemmVars, G!tileVars
  <2>3. StepsLeft' = StepsLeft
    BY <2>1, <2>2 DEF StepsLeft, Steps, ElementsLeft, G!gemmVars,
                      G!loadVars
  <2>4. TermsLeft' = TermsLeft
    BY <2>1 DEF TermsLeft, G!gemmVars, G!loadVars
  <2>5. ResultsLeft' = ResultsLeft
    BY <2>1 DEF ResultsLeft, VectorWorking, V!RequestStates, V!ReadStates, ReductionReading,
                G!gemmVars, G!writeVars
  <2> QED BY <2>3, <2>4, <2>5
<1>12. ASSUME \E command \in G!Offered : G!AcceptCommand(command) PROVE Idle
  BY <1>12 DEF G!AcceptCommand, G!Accept, Idle
<1> QED BY <1>1, <1>5, <1>6, <1>7, <1>8, <1>9, <1>10, <1>11, <1>12
        DEF G!Next, G!Advance, GoesOn

\* What CommandEnds rests on, for every width, limit, tile size, descriptor and
\* behaviour of the memory: no accelerator goes back on its way through words,
\* tiles and inner indices, each answered request and each computation takes
\* it nearer to its end, and where no step is left it is idle.
THEOREM CommandsProgress == Spec => [][CommandProgress]_vars
<1> DEFINE Inv == IInv /\ StatesInv
<1>1. Init => Inv
  <2>1. /\ V!Init => state \in VectorStates
        /\ R!Init => state \in ReductionStates
        /\ G!Init => state \in GemmStates
    BY DEF V!Init, V!CoreInit, VectorStates, R!Init, R!CoreInit, ReductionStates,
           G!Init, G!CoreInit, GemmStates
  <2>2. /\ VT!BenchInit(VT!Tests) => step # "open"
        /\ RT!BenchInit(RT!Tests) => step # "open"
        /\ GT!BenchInit(GT!Tests) => step # "open"
    BY DEF VT!BenchInit, RT!BenchInit, GT!BenchInit
  <2>3. Init => StatesInv
    BY <2>1, <2>2 DEF Init, StatesInv
  <2> QED BY <2>3, Inductive
<1>2. ASSUME Inv, [Next]_vars PROVE Inv' /\ [CommandProgress]_vars
  <2>1. IInv'
    BY <1>2, Inductive
  <2>2. CASE UNCHANGED vars
    <3>1. UNCHANGED <<kind, step, state>>
      BY <2>2 DEF vars, core, bench
    <3>2. StatesInv'
      BY <1>2, <3>1 DEF StatesInv, VectorStates, VectorWorking, ReductionStates,
                        ReductionWorking, ReductionReading, GemmStates, GemmWorking
    <3> QED BY <2>1, <2>2, <3>2
  <2>3. CASE Tested
    <3>1. step # "open" /\ step' # "open"
      BY <2>3, TestsStayTests DEF Tested
    <3> QED BY <2>1, <3>1 DEF StatesInv, CommandProgress
  <2>4. ASSUME Open(VectorStep \/ ReductionStep \/ GemmStep)
        PROVE  StatesInv' /\ CommandProgress
    <3>1. step = "open" /\ step' = "open" /\ kind' = kind
      BY <2>4 DEF Open, OthersUnchanged, bench
    <3>2. ASSUME GoesOn(VectorAdvance \/ ReductionAdvance \/ GemmAdvance),
                 ResultsLeft \in Nat, TermsLeft \in Nat, StepsLeft \in Nat,
                 Idle <=> StepsLeft = 0
          PROVE  CommandProgress
      BY <3>2 DEF CommandProgress, Open, GoesOn
    <3>3. CASE VectorStep
      <4>1. kind = "vector" /\ VectorInv /\ VectorInv' /\ V!Next /\ state \in VectorStates
        BY <1>2, <2>1, <3>1, <3>3 DEF VectorStep, IInv, StatesInv
      <4>2. state' \in VectorStates /\ GoesOn(V!Advance)
        BY <4>1, VectorGoesOn
      <4>3. VectorCounts
        BY <4>1, VectorLeft
      <4>4. (VectorAdvance \/ ReductionAdvance \/ GemmAdvance) => V!Advance
        BY <4>1 DEF VectorAdvance, ReductionAdvance, GemmAdvance
      <4>5. CommandProgress
        BY <3>2, <4>2, <4>3, <4>4 DEF GoesOn, VectorCounts, CountsLeft
      <4> QED BY <3>1, <4>1, <4>2, <4>5 DEF StatesInv
    <3>4. CASE ReductionStep
      <4>1. kind = "reduction" /\ ReductionInv /\ ReductionInv' /\ R!Next
            /\ state \in ReductionStates
        BY <1>2, <2>1, <3>1, <3>4 DEF ReductionStep, IInv, StatesInv
      <4>2. state' \in ReductionStates /\ GoesOn(R!Advance)
        BY <4>1, ReductionGoesOn
      <4>3. ReductionCounts
        BY <4>1, ReductionLeft
      <4>4. (VectorAdvance \/ ReductionAdvance \/ GemmAdvance) => R!Advance
        BY <4>1 DEF VectorAdvance, ReductionAdvance, GemmAdvance
      <4>5. CommandProgress
        BY <3>2, <4>2, <4>3, <4>4 DEF GoesOn, ReductionCounts, CountsLeft
      <4> QED BY <3>1, <4>1, <4>2, <4>5 DEF StatesInv
    <3>5. CASE GemmStep
      <4>1. kind = "gemm" /\ GemmInv /\ GemmInv' /\ G!Next /\ state \in GemmStates
        BY <1>2, <2>1, <3>1, <3>5 DEF GemmStep, IInv, StatesInv
      <4>2. state' \in GemmStates /\ GoesOn(G!Advance)
        BY <4>1, GemmGoesOn
      <4>3. GemmCounts
        BY <4>1, GemmLeft
      <4>4. (VectorAdvance \/ ReductionAdvance \/ GemmAdvance) => G!Advance
        BY <4>1 DEF VectorAdvance, ReductionAdvance, GemmAdvance
      <4>5. CommandProgress
        BY <3>2, <4>2, <4>3, <4>4 DEF GoesOn, GemmCounts, CountsLeft
      <4> QED BY <3>1, <4>1, <4>2, <4>5 DEF StatesInv
    <3> QED BY <2>4, <3>3, <3>4, <3>5 DEF Open
  <2> QED BY <1>2, <2>1, <2>2, <2>3, <2>4 DEF Next
<1>3. Spec => []Inv
  <2>1. ASSUME Inv, [Next]_vars PROVE Inv'
    BY <1>2, <2>1
  <2> QED BY <1>1, <2>1, PTL DEF Spec
<1> QED BY <1>2, <1>3, PTL DEF Spec

----------------------------------------------------------------------------
(* Arithmetic. *)

\* Induction over Nat, as the least element of a set of counterexamples.
LEMMA LeastNatural ==
  ASSUME NEW S \in SUBSET Nat, S # {}
  PROVE  \E n \in S : \A m \in S : n <= m
<1>1. PICK n \in S : \A m \in S : ~ (<<m, n>> \in OpToRel(<, Nat))
  BY NatLessThanWellFounded, WFMin
<1>2. \A m \in S : ~ (m < n)
  BY <1>1 DEF OpToRel
<1> QED BY <1>2

\* Division of an integer.
LEMMA IntegerDivision ==
  ASSUME NEW m \in Nat \ {0}, NEW x \in Int
  PROVE  /\ x % m \in 0 .. m - 1
         /\ \E q \in Int : x = q * m + (x % m)
<1>1. x % m \in 0 .. m - 1
  OBVIOUS
<1>2. x \div m \in Int
  OBVIOUS
<1>3. x = (x \div m) * m + (x % m)
  OBVIOUS
<1> QED BY <1>1, <1>2, <1>3

\* A multiple of a modulus other than 0 is at least the modulus away.
LEMMA MultipleGrows ==
  ASSUME NEW m \in Nat \ {0}, NEW q \in Int
  PROVE  /\ q >= 1 => q * m >= m
         /\ q <= -1 => q * m <= -m
<1>1. CASE q >= 1
  <2>1. PICK d \in Nat : q = d + 1
    BY <1>1
  <2>2. q * m = d * m + m /\ d * m \in Nat
    BY <2>1
  <2> QED BY <1>1, <2>2
<1>2. CASE q <= -1
  <2>1. PICK d \in Nat : q = -1 - d
    <3>1. -1 - q \in Nat /\ q = -1 - (-1 - q)
      BY <1>2
    <3> QED BY <3>1
  <2>2. q * m = -m - d * m /\ d * m \in Nat
    BY <2>1
  <2> QED BY <1>2, <2>2
<1> QED BY <1>1, <1>2

\* Quotient and remainder are unique.
LEMMA Remainder ==
  ASSUME NEW m \in Nat \ {0}, NEW q \in Int, NEW r \in 0 .. m - 1
  PROVE  (q * m + r) % m = r
<1> DEFINE x == q * m + r
<1>1. x \in Int
  OBVIOUS
<1>2. x % m \in 0 .. m - 1
  BY <1>1, IntegerDivision
<1>3. PICK p \in Int : x = p * m + (x % m)
  BY <1>1, IntegerDivision
<1>4. PICK d \in Int : d = q - p
  OBVIOUS
<1>5. q * m = p * m + d * m /\ d * m \in Int /\ p * m \in Int /\ q * m \in Int
  BY <1>4
<1>6. d * m = (x % m) - r
  <2> HIDE DEF x
  <2>1. x = q * m + r
    BY DEF x
  <2>2. x % m \in Int /\ r \in Int
    BY <1>2
  <2> QED BY <1>3, <1>5, <2>1, <2>2
<1> HIDE DEF x
<1>7. d = 0
  <2>1. (d >= 1 => d * m >= m) /\ (d <= -1 => d * m <= -m)
    BY MultipleGrows
  <2> QED BY <1>2, <1>6, <2>1
<1>8. d * m = 0
  BY <1>7
<1> QED BY <1>2, <1>6, <1>8 DEF x

\* Elements of modulus m: what they stand for and how a number becomes one,
\* as AcceleratorCore defines both for each build.
MeaningIn(m, value, signed) == IF signed /\ value >= m \div 2 THEN value - m ELSE value

Clip(m, x, signed) ==
  LET high == IF signed THEN m \div 2 - 1 ELSE m - 1
      low == IF signed THEN -(m \div 2) ELSE 0
  IN  IF x > high THEN high ELSE IF x < low THEN low ELSE x

ConvertIn(m, x, signed, saturate) == (IF saturate THEN Clip(m, x, signed) ELSE x) % m

FitsIn(m, element, exact, signed, saturate) ==
  LET Far(e) == IF MeaningIn(m, e, signed) > exact THEN MeaningIn(m, e, signed) - exact
                ELSE exact - MeaningIn(m, e, signed)
  IN  IF saturate THEN \A other \in 0 .. m - 1 : Far(element) <= Far(other)
      ELSE Far(element) % m = 0

Even(m) == m \in Nat \ {0} /\ m = 2 * (m \div 2) /\ m \div 2 \in Nat \ {0}

\* The range of an element.
LEMMA MeaningRange ==
  ASSUME NEW m, Even(m), NEW e \in 0 .. m - 1, NEW signed
  PROVE  /\ MeaningIn(m, e, signed) \in Int
         /\ signed => MeaningIn(m, e, signed) \in -(m \div 2) .. m \div 2 - 1
         /\ ~signed => MeaningIn(m, e, signed) \in 0 .. m - 1
         /\ MeaningIn(m, e, signed) = e \/ MeaningIn(m, e, signed) = e - m
BY DEF MeaningIn, Even

\* The remainder of a number stands for that number, if it is in the range.
LEMMA RemainderMeans ==
  ASSUME NEW m, Even(m), NEW x \in Int, NEW signed,
         signed => x \in -(m \div 2) .. m \div 2 - 1,
         ~signed => x \in 0 .. m - 1
  PROVE  MeaningIn(m, x % m, signed) = x
<1>1. CASE x >= 0
  <2>1. x \in 0 .. m - 1
    BY <1>1 DEF Even
  <2>2. (0 * m + x) % m = x
    BY <2>1, Remainder DEF Even
  <2>3. x % m = x
    BY <2>1, <2>2 DEF Even
  <2> QED BY <1>1, <2>3 DEF MeaningIn, Even
<1>2. CASE x < 0
  <2>1. x + m \in 0 .. m - 1 /\ x + m >= m \div 2 /\ signed
    BY <1>2 DEF Even
  <2>2. ((-1) * m + (x + m)) % m = x + m
    BY <2>1, Remainder DEF Even
  <2>3. (-1) * m + (x + m) = x
    BY DEF Even
  <2>4. x % m = x + m
    BY <2>2, <2>3
  <2> QED BY <2>1, <2>4 DEF MeaningIn, Even
<1> QED BY <1>1, <1>2

\* Conversion yields the element for the number.
LEMMA ConvertFits ==
  ASSUME NEW m, Even(m), NEW x \in Int, NEW signed, NEW saturate
  PROVE  /\ ConvertIn(m, x, signed, saturate) \in 0 .. m - 1
         /\ FitsIn(m, ConvertIn(m, x, signed, saturate), x, signed, saturate)
<1>0. m \in Nat \ {0}
  BY DEF Even
<1>1. Clip(m, x, signed) \in Int
  BY DEF Clip, Even
<1>2. ConvertIn(m, x, signed, saturate) \in 0 .. m - 1
  BY <1>0, <1>1, IntegerDivision DEF ConvertIn
<1>3. CASE saturate
  <2> DEFINE c == Clip(m, x, signed)
  <2>1. /\ signed => c \in -(m \div 2) .. m \div 2 - 1
        /\ ~signed => c \in 0 .. m - 1
    BY DEF Clip, Even
  <2>2. MeaningIn(m, ConvertIn(m, x, signed, saturate), signed) = c
    BY <1>1, <1>3, <2>1, RemainderMeans DEF ConvertIn
  <2>3. ASSUME NEW other \in 0 .. m - 1, NEW n, n = MeaningIn(m, other, signed)
        PROVE  (IF c > x THEN c - x ELSE x - c) <= (IF n > x THEN n - x ELSE x - n)
    <3>1. /\ n \in Int
          /\ signed => n \in -(m \div 2) .. m \div 2 - 1
          /\ ~signed => n \in 0 .. m - 1
      BY <2>3, MeaningRange
    <3> QED BY <1>1, <2>1, <3>1 DEF Clip, Even
  <2> HIDE DEF c
  <2> QED BY <1>2, <1>3, <2>2, <2>3 DEF FitsIn
<1>4. CASE ~saturate
  <2> DEFINE e == x % m
             n == MeaningIn(m, e, signed)
  <2>1. e \in 0 .. m - 1
    BY <1>0, IntegerDivision
  <2>2. PICK q \in Int : x = q * m + e
    BY <1>0, IntegerDivision
  <2> HIDE DEF e
  <2>3. n \in Int /\ (n = e \/ n = e - m)
    BY <2>1, MeaningRange
  <2>4. \E p \in Int : n - x = p * m /\ x - n = (-p) * m
    <3>1. CASE n = e
      <4>1. n - x = (-q) * m /\ x - n = (-(-q)) * m
        BY <1>0, <2>1, <2>2, <3>1
      <4> QED BY <4>1
    <3>2. CASE n = e - m
      <4>1. n - x = (-q - 1) * m /\ x - n = (-(-q - 1)) * m
        BY <1>0, <2>1, <2>2, <3>2
      <4> QED BY <4>1
    <3> QED BY <2>3, <3>1, <3>2
  <2>5. PICK p \in Int : n - x = p * m /\ x - n = (-p) * m
    BY <2>4
  <2>6. \A y \in Int : (y * m + 0) % m = 0 /\ y * m + 0 = y * m
    BY <1>0, Remainder
  <2>7. (n - x) % m = 0 /\ (x - n) % m = 0
    BY <2>5, <2>6
  <2>8. ConvertIn(m, x, signed, saturate) = e
    BY <1>4 DEF ConvertIn, e
  <2> QED BY <1>2, <1>4, <2>7, <2>8 DEF FitsIn
<1> QED BY <1>2, <1>3, <1>4

----------------------------------------------------------------------------
(* Powers of two. *)

\* Powers of two are positive natural numbers.
LEMMA PowerNatural ==
  ASSUME NEW w \in Nat, \A n \in 1 .. w : 2 ^ n = 2 * 2 ^ (n - 1)
  PROVE  \A n \in 0 .. w : 2 ^ n \in Nat \ {0}
<1> DEFINE bad == {n \in 0 .. w : 2 ^ n \notin Nat \ {0}}
<1>1. ASSUME bad # {} PROVE FALSE
  <2>0. bad \in SUBSET Nat
    OBVIOUS
  <2>1. PICK n \in bad : \A i \in bad : n <= i
    <3> HIDE DEF bad
    <3> QED BY <1>1, <2>0, LeastNatural
  <2>2. n # 0
    <3>1. 2 ^ 0 \in Nat \ {0}
      <4>1. 2 ^ 0 = 1
        OBVIOUS
      <4> QED BY <4>1
    <3>2. 2 ^ n \notin Nat \ {0}
      BY <2>1
    <3> HIDE DEF bad
    <3> QED BY <3>1, <3>2
  <2>3. n \in 1 .. w /\ n - 1 \in 0 .. w /\ ~(n <= n - 1)
    BY <2>1, <2>2
  <2>4. 2 ^ (n - 1) \in Nat \ {0}
    BY <2>1, <2>3
  <2>5. 2 ^ n = 2 * 2 ^ (n - 1)
    BY <2>3
  <2> QED BY <2>1, <2>4, <2>5
<1> QED BY <1>1

\* Powers of two multiply by adding their exponents.
LEMMA PowerSum ==
  ASSUME NEW w \in Nat, \A n \in 1 .. w : 2 ^ n = 2 * 2 ^ (n - 1), NEW a \in 0 .. w
  PROVE  \A b \in 0 .. w - a : 2 ^ (a + b) = 2 ^ a * 2 ^ b
<1> DEFINE bad == {b \in 0 .. w - a : 2 ^ (a + b) # 2 ^ a * 2 ^ b}
<1>1. ASSUME bad # {} PROVE FALSE
  <2>0. bad \in SUBSET Nat
    OBVIOUS
  <2>1. PICK n \in bad : \A i \in bad : n <= i
    <3> HIDE DEF bad
    <3> QED BY <1>1, <2>0, LeastNatural
  <2>2. n # 0
    <3>1. 2 ^ a \in Nat
      BY PowerNatural
    <3>2. 2 ^ 0 = 1 /\ a + 0 = a
      OBVIOUS
    <3>3. 2 ^ a * 1 = 2 ^ a
      BY <3>1
    <3> QED BY <2>1, <3>2, <3>3
  <2>3. /\ n \in 1 .. w /\ n - 1 \in 0 .. w - a /\ ~(n <= n - 1)
        /\ a + n \in 1 .. w /\ (a + n) - 1 = a + (n - 1)
    BY <2>1, <2>2
  <2>4. 2 ^ (a + (n - 1)) = 2 ^ a * 2 ^ (n - 1)
    BY <2>1, <2>3
  <2>5. 2 ^ n = 2 * 2 ^ (n - 1) /\ 2 ^ (a + n) = 2 * 2 ^ (a + (n - 1))
    BY <2>3
  <2>6. 2 ^ a \in Nat /\ 2 ^ (n - 1) \in Nat
    BY <2>3, PowerNatural
  <2>7. \A x, y \in Nat : 2 * (x * y) = x * (2 * y)
    OBVIOUS
  <2> QED BY <2>1, <2>4, <2>5, <2>6, <2>7
<1> QED BY <1>1

\* A width of at least one bit has an even modulus.
LEMMA EvenPower ==
  ASSUME NEW w \in Nat, \A n \in 1 .. w : 2 ^ n = 2 * 2 ^ (n - 1), NEW n \in 1 .. w
  PROVE  Even(2 ^ n)
<1>1. n - 1 \in 0 .. w
  OBVIOUS
<1>2. 2 ^ (n - 1) \in Nat \ {0}
  BY <1>1, PowerNatural
<1>3. 2 ^ n = 2 * 2 ^ (n - 1)
  OBVIOUS
<1>4. \A h \in Nat \ {0} : (2 * h) \div 2 = h /\ 2 * h \in Nat \ {0}
  OBVIOUS
<1> QED BY <1>2, <1>3, <1>4 DEF Even

\* The widths of a build are positive.
LEMMA Widths ==
  /\ Vector.element_width \in Nat \ {0}
  /\ Reduction.element_width \in Nat \ {0} /\ Reduction.accum_width \in Nat \ {0}
  /\ Gemm.element_width \in Nat \ {0} /\ Gemm.accum_width \in Nat \ {0}
BY ParametersValid DEF V!CoreParameters, R!CoreParameters, G!CoreParameters,
   R!ReductionParameters, G!GemmParameters

----------------------------------------------------------------------------
(* The results of the vector accelerator. *)

\* The vector accelerator converts as defined above.
LEMMA VectorElements ==
  /\ Even(V!Modulus)
  /\ V!Elements = 0 .. V!Modulus - 1
  /\ \A e \in V!Elements : \A signed : V!Meaning(e, signed) \in Int
  /\ \A x \in Int : \A signed, saturate :
       /\ V!Convert(x, signed, saturate) \in V!Elements
       /\ V!IsElementFor(V!Convert(x, signed, saturate), x, signed, saturate)
<1>1. Even(V!Modulus)
  <2>1. Vector.element_width \in 1 .. Vector.element_width + Reduction.accum_width
                                         + Gemm.accum_width
        /\ Vector.element_width + Reduction.accum_width + Gemm.accum_width \in Nat
    BY Widths
  <2> QED BY <2>1, EvenPower, PowersOfTwo DEF V!Modulus
<1>2. V!Elements = 0 .. V!Modulus - 1
  BY DEF V!Elements
<1>3. \A e, signed : V!Meaning(e, signed) = MeaningIn(V!Modulus, e, signed)
  BY DEF V!Meaning, MeaningIn
<1>4. \A x, signed, saturate :
         V!Convert(x, signed, saturate) = ConvertIn(V!Modulus, x, signed, saturate)
  BY DEF V!Convert, ConvertIn, Clip, V!Maximum, V!Minimum
<1>5. ASSUME NEW e, NEW x, NEW signed, NEW saturate, 
             FitsIn(V!Modulus, e, x, signed, saturate)
      PROVE  V!IsElementFor(e, x, signed, saturate)
  BY <1>2, <1>3, <1>5 DEF V!IsElementFor, V!Distance, FitsIn
<1>6. ASSUME NEW e \in V!Elements, NEW signed PROVE V!Meaning(e, signed) \in Int
  BY <1>1, <1>2, <1>3, MeaningRange
<1>7. ASSUME NEW x \in Int, NEW signed, NEW saturate
      PROVE  /\ V!Convert(x, signed, saturate) \in V!Elements
             /\ V!IsElementFor(V!Convert(x, signed, saturate), x, signed, saturate)
  BY <1>1, <1>2, <1>4, <1>5, ConvertFits
<1> QED BY <1>1, <1>2, <1>6, <1>7

VectorScalar == {"VECTOR_SCALAR_REQUEST", "VECTOR_SCALAR_RESPONSE"}

\* Elements stored so far, and the lanes of the next word they occupy.
VectorPosition == active.length - elements_remaining
VectorLanes(remaining) == {lane \in V!Lanes : lane < remaining}
VectorCount(remaining) ==
  IF remaining <= Vector.elements_per_word THEN remaining ELSE Vector.elements_per_word

\* The properties of VectorAccelerator with their variables as parameters.
VectorOperand(act, bef, i) ==
  CASE act.opcode = "SCALE" -> bef[act.src1]
    [] act.opcode = "RELU" -> 0
    [] OTHER -> bef[act.src1 + i]

VectorResult(act, bef, i, element) ==
  V!IsResult(element, bef[act.src0 + i], VectorOperand(act, bef, i), act)

VectorPrefix(mem, bef, act, n) ==
  \A a \in V!Space : IF a - act.dst \in 0 .. n - 1
                       THEN VectorResult(act, bef, a - act.dst, mem[a])
                       ELSE mem[a] = bef[a]

VectorSafe(act) ==
  LET Safe(source) == act.dst <= source \/ act.dst >= source + V!Storage(act.length)
  IN  /\ Safe(act.src0)
      /\ V!vector_opcode_uses_source1(act.opcode) => Safe(act.src1)

VectorTypes ==
  /\ memory \in [V!Space -> V!Elements] /\ before \in [V!Space -> V!Elements]
  /\ source0_word \in [V!Lanes -> V!Elements] /\ source1_word \in [V!Lanes -> V!Elements]
  /\ result_word \in [V!Lanes -> V!Elements]
  /\ scalar_element \in V!Elements

\* What memory and the registers hold while a command is in execution.
VectorProgress ==
  /\ completed = VectorPosition
  /\ VectorSafe(active) => VectorPrefix(memory, before, active, VectorPosition)
  /\ elements_remaining = active.length => memory = before
  /\ state \in VectorScalar => elements_remaining = active.length
  /\ state \notin VectorScalar /\ active.opcode = "SCALE" =>
       scalar_element = before[active.src1]
  /\ VectorSafe(active) =>
       \A lane \in VectorLanes(elements_remaining) :
         /\ state \in {"VECTOR_SOURCE1_REQUEST", "VECTOR_SOURCE1_RESPONSE", "VECTOR_EXECUTE"}
              => source0_word[lane] = before[active.src0 + (VectorPosition + lane)]
         /\ state = "VECTOR_EXECUTE" /\ V!vector_opcode_uses_source1(active.opcode)
              => source1_word[lane] = before[active.src1 + (VectorPosition + lane)]
         /\ state \in {"VECTOR_WRITE_REQUEST", "VECTOR_WRITE_RESPONSE"}
              => VectorResult(active, before, VectorPosition + lane, result_word[lane])

VectorAnswer ==
  /\ completed \in Nat
  /\ response.error = "ERR_NONE" =>
       /\ response.result = active.length
       /\ completed = active.length
       /\ VectorSafe(active) => VectorPrefix(memory, before, active, active.length)
  /\ response.error # "ERR_NONE" =>
       \/ completed = 0 /\ memory = before
       \/ /\ response.error = "ERR_ADDRESS"
          /\ VectorSafe(active) =>
               \E n \in {completed, completed + VectorCount(elements_remaining)} :
                 VectorPrefix(memory, before, active, n)

VectorData ==
  /\ VectorTypes
  /\ state \in VectorWorking => VectorProgress
  /\ state = "VECTOR_RESPONSE" => VectorAnswer

\* Where a command stands, from the invariant proved above.
LEMMA VectorPlace ==
  ASSUME VectorInv, state \in VectorWorking
  PROVE  /\ active.src0 \in Nat /\ active.src1 \in Nat /\ active.dst \in Nat
         /\ active.length \in Nat /\ VectorPosition \in Nat
         /\ VectorPosition < active.length
         /\ elements_remaining \in Nat \ {0}
         /\ elements_remaining = active.length - VectorPosition
         /\ source0_address = active.src0 + VectorPosition
         /\ destination_address = active.dst + VectorPosition
         /\ V!vector_opcode_uses_source1(active.opcode) =>
              source1_address = active.src1 + VectorPosition
         /\ active.opcode = "SCALE" => source1_address = active.src1
         /\ V!Storage(active.length) \in Nat
         /\ VectorPosition + Vector.elements_per_word <= V!Storage(active.length)
<1> DEFINE W == Vector.elements_per_word
<1>1. W \in Nat \ {0}
  BY ParametersValid DEF V!CoreParameters
<1>2. VectorAdmitted
  BY DEF VectorInv
<1>3. PICK words \in Nat : VectorAt(words)
  BY DEF VectorInv
<1>4. /\ words * W \in Nat /\ active.length \in Nat /\ words * W < active.length
      /\ elements_remaining = active.length - words * W
  BY <1>1, <1>2, <1>3 DEF VectorAt, VectorAdmitted
<1>5. VectorPosition = words * W
  BY <1>4 DEF VectorPosition
<1>6. V!Storage(active.length) \in Nat /\ words * W + W <= V!Storage(active.length)
  <2> HIDE DEF W
  <2>1. /\ ((active.length + W - 1) \div W) * W \in Nat
        /\ words * W + W <= ((active.length + W - 1) \div W) * W
    BY <1>1, <1>4, WordInStorage, StorageNatural
  <2> QED BY <2>1 DEF V!Storage, W
<1> HIDE DEF W
<1> QED BY <1>2, <1>3, <1>4, <1>5, <1>6 DEF VectorAt, VectorAdmitted, W

\* The lanes of the words at the addresses lie in memory.
LEMMA VectorSpace ==
  ASSUME VectorInv, state \in VectorWorking, NEW lane \in V!Lanes
  PROVE  /\ active.src0 + (VectorPosition + lane) \in V!Space
         /\ active.dst + (VectorPosition + lane) \in V!Space
         /\ V!vector_opcode_uses_source1(active.opcode) =>
              active.src1 + (VectorPosition + lane) \in V!Space
         /\ active.opcode = "SCALE" => active.src1 + lane \in V!Space
<1>1. /\ Vector.elements_per_word \in Nat \ {0}
      /\ Vector.spm.base \in Nat /\ Vector.spm.size \in Nat
  BY ParametersValid DEF V!CoreParameters
<1>2. VectorAdmitted
  BY DEF VectorInv
<1>3. lane \in Nat /\ lane < Vector.elements_per_word
  BY <1>1 DEF V!Lanes
<1>4. ASSUME NEW base \in Nat, V!scratchpad_range_is_legal(base, V!Storage(active.length))
      PROVE  base + (VectorPosition + lane) \in V!Space
  BY <1>1, <1>3, <1>4, VectorPlace DEF V!Space, V!scratchpad_range_is_legal
<1>5. active.opcode = "SCALE" => active.src1 + lane \in V!Space
  BY <1>1, <1>2, <1>3 DEF VectorAdmitted, V!OutOfBounds, V!Space, V!scratchpad_range_is_legal
<1> QED BY <1>2, <1>4, <1>5 DEF VectorAdmitted, V!OutOfBounds

\* A word ahead of the results is as it was.
LEMMA VectorUntouched ==
  ASSUME VectorInv, state \in VectorWorking,
         VectorPrefix(memory, before, active, VectorPosition),
         NEW source \in Nat,
         active.dst <= source \/ active.dst >= source + V!Storage(active.length),
         NEW lane \in V!Lanes, source + (VectorPosition + lane) \in V!Space
  PROVE  memory[source + (VectorPosition + lane)] = before[source + (VectorPosition + lane)]
<1> DEFINE a == source + (VectorPosition + lane)
<1>1. lane \in Nat /\ lane < Vector.elements_per_word /\ Vector.elements_per_word \in Nat
  BY ParametersValid DEF V!CoreParameters, V!Lanes
<1>2. a - active.dst \notin 0 .. VectorPosition - 1
  BY <1>1, VectorPlace
<1> HIDE DEF a
<1>3. a \in V!Space
  BY DEF a
<1>4. memory[a] = before[a]
  BY <1>2, <1>3 DEF VectorPrefix
<1> QED BY <1>4 DEF a

\* Words read have the type of words.
LEMMA VectorWordType ==
  ASSUME VectorTypes, NEW address, \A lane \in V!Lanes : address + lane \in V!Space
  PROVE  V!Word(address) \in [V!Lanes -> V!Elements]
BY DEF VectorTypes, V!Word

\* Steps before the first result.
LEMMA VectorScalarData ==
  ASSUME VectorInv, VectorData, V!ScalarRead
  PROVE  VectorData'
<1>1. /\ state = "VECTOR_SCALAR_RESPONSE" /\ state' = "VECTOR_SOURCE0_REQUEST"
      /\ UNCHANGED <<active, before, memory, elements_remaining>> /\ completed' = completed + 0
      /\ UNCHANGED <<source0_word, source1_word, result_word>>
      /\ scalar_element' = V!Word(source1_address)[0]
  BY DEF V!ScalarRead, V!Handshake, V!Proceed, V!addressVars
<1>2. state \in VectorWorking /\ active.opcode = "SCALE"
  BY <1>1 DEF VectorWorking, V!ReadStates, VectorInv
<1>3. VectorProgress /\ VectorTypes
  BY <1>2 DEF VectorData
<1>4. memory = before
  BY <1>1, <1>3 DEF VectorProgress, VectorScalar
<1>5. 0 \in V!Lanes
  BY ParametersValid DEF V!CoreParameters, V!Lanes
<1>6. scalar_element' = before[active.src1] /\ scalar_element' \in V!Elements
  <2>1. V!Word(source1_address)[0] = memory[active.src1 + 0]
    BY <1>2, <1>5, VectorPlace DEF V!Word
  <2>2. active.src1 + 0 = active.src1 /\ active.src1 + 0 \in V!Space
    BY <1>2, <1>5, VectorPlace, VectorSpace
  <2> QED BY <1>1, <1>3, <1>4, <2>1, <2>2 DEF VectorTypes
<1>7. completed \in Int /\ completed' = completed
  <2>1. completed \in Int
    BY <1>2, <1>3, VectorPlace DEF VectorProgress
  <2> QED BY <1>1, <2>1
<1>8. VectorTypes'
  BY <1>1, <1>3, <1>6 DEF VectorTypes
<1>9. VectorPosition' = VectorPosition
  BY <1>1 DEF VectorPosition
<1>10. VectorProgress'
  BY <1>1, <1>3, <1>6, <1>7, <1>9 DEF VectorProgress, VectorScalar
<1> QED BY <1>1, <1>8, <1>10 DEF VectorData

\* Where the destination is safe, a word of the first source is still as it began.
LEMMA VectorSource0Data ==
  ASSUME VectorInv, VectorData, V!Source0Read
  PROVE  VectorData'
<1>1. /\ state = "VECTOR_SOURCE0_RESPONSE"
      /\ state' = IF V!vector_opcode_uses_source1(active.opcode) THEN "VECTOR_SOURCE1_REQUEST"
                  ELSE "VECTOR_EXECUTE"
      /\ UNCHANGED <<active, before, memory, elements_remaining>> /\ completed' = completed + 0
      /\ UNCHANGED <<source1_word, scalar_element, result_word>>
      /\ source0_word' = V!Word(source0_address)
  BY DEF V!Source0Read, V!Handshake, V!Proceed, V!addressVars
<1>2. state \in VectorWorking
  BY <1>1 DEF VectorWorking, V!ReadStates
<1>3. VectorProgress /\ VectorTypes
  BY <1>2 DEF VectorData
<1>4. \A lane \in V!Lanes : /\ source0_address + lane = active.src0 + (VectorPosition + lane)
                            /\ active.src0 + (VectorPosition + lane) \in V!Space
  <2>1. \A lane \in V!Lanes : lane \in Int
    BY ParametersValid DEF V!CoreParameters, V!Lanes
  <2> QED BY <1>2, <2>1, VectorPlace, VectorSpace
<1>5. ASSUME VectorSafe(active), NEW lane \in V!Lanes
      PROVE  source0_word'[lane] = before[active.src0 + (VectorPosition + lane)]
  <2>1. active.dst <= active.src0 \/ active.dst >= active.src0 + V!Storage(active.length)
    BY <1>5 DEF VectorSafe
  <2>2. VectorPrefix(memory, before, active, VectorPosition) /\ active.src0 \in Nat
    BY <1>2, <1>3, <1>5, VectorPlace DEF VectorProgress
  <2>3. memory[active.src0 + (VectorPosition + lane)] = before[active.src0 + (VectorPosition + lane)]
    BY <1>2, <1>4, <2>1, <2>2, VectorUntouched
  <2> QED BY <1>1, <1>4, <2>3 DEF V!Word
<1>6. completed' = completed
  BY <1>1, <1>2, <1>3, VectorPlace DEF VectorProgress
<1>7. VectorTypes'
  BY <1>1, <1>3, <1>4, VectorWordType DEF VectorTypes
<1>8. VectorPosition' = VectorPosition
  BY <1>1 DEF VectorPosition
<1>9. VectorProgress'
  BY <1>1, <1>3, <1>5, <1>6, <1>8 DEF VectorProgress, VectorScalar, VectorLanes
<1> QED BY <1>1, <1>7, <1>9 DEF VectorData

\* So is a word of the second source.
LEMMA VectorSource1Data ==
  ASSUME VectorInv, VectorData, V!Source1Read
  PROVE  VectorData'
<1>1. /\ state = "VECTOR_SOURCE1_RESPONSE" /\ state' = "VECTOR_EXECUTE"
      /\ UNCHANGED <<active, before, memory, elements_remaining>> /\ completed' = completed + 0
      /\ UNCHANGED <<source0_word, scalar_element, result_word>>
      /\ source1_word' = V!Word(source1_address)
  BY DEF V!Source1Read, V!Handshake, V!Proceed, V!addressVars
<1>2. state \in VectorWorking /\ V!vector_opcode_uses_source1(active.opcode)
  BY <1>1 DEF VectorWorking, V!ReadStates, VectorInv
<1>3. VectorProgress /\ VectorTypes
  BY <1>2 DEF VectorData
<1>4. \A lane \in V!Lanes : /\ source1_address + lane = active.src1 + (VectorPosition + lane)
                            /\ active.src1 + (VectorPosition + lane) \in V!Space
  <2>1. \A lane \in V!Lanes : lane \in Int
    BY ParametersValid DEF V!CoreParameters, V!Lanes
  <2> QED BY <1>2, <2>1, VectorPlace, VectorSpace
<1>5. ASSUME VectorSafe(active), NEW lane \in V!Lanes
      PROVE  source1_word'[lane] = before[active.src1 + (VectorPosition + lane)]
  <2>1. active.dst <= active.src1 \/ active.dst >= active.src1 + V!Storage(active.length)
    BY <1>2, <1>5 DEF VectorSafe
  <2>2. VectorPrefix(memory, before, active, VectorPosition) /\ active.src1 \in Nat
    BY <1>2, <1>3, <1>5, VectorPlace DEF VectorProgress
  <2>3. memory[active.src1 + (VectorPosition + lane)] = before[active.src1 + (VectorPosition + lane)]
    BY <1>2, <1>4, <2>1, <2>2, VectorUntouched
  <2> QED BY <1>1, <1>4, <2>3 DEF V!Word
<1>6. completed' = completed
  BY <1>1, <1>2, <1>3, VectorPlace DEF VectorProgress
<1>7. VectorTypes'
  BY <1>1, <1>3, <1>4, VectorWordType DEF VectorTypes
<1>8. VectorPosition' = VectorPosition
  BY <1>1 DEF VectorPosition
<1>9. VectorProgress'
  BY <1>1, <1>3, <1>5, <1>6, <1>8 DEF VectorProgress, VectorScalar, VectorLanes
<1> QED BY <1>1, <1>7, <1>9 DEF VectorData

\* The unit computes what the opcode is defined to.
LEMMA VectorComputes ==
  ASSUME NEW command, command.opcode \in V!VectorOpcodes,
         NEW l \in V!Elements, NEW r \in V!Elements
  PROVE  /\ V!execute_element(l, r, command) \in V!Elements
         /\ V!IsResult(V!execute_element(l, r, command), l, r, command)
         /\ command.opcode = "RELU" => V!IsResult(V!execute_element(l, r, command), l, 0, command)
<1> DEFINE x == V!ExactValue(l, r, command)
           saturate == command.saturate /\ V!Arithmetic(command.opcode)
<1>1. V!Meaning(l, command.signed) \in Int /\ V!Meaning(r, command.signed) \in Int
  BY VectorElements
<1>2. x \in Int
  BY <1>1 DEF V!ExactValue
<1>3. V!execute_element(l, r, command) = V!Convert(x, command.signed, saturate)
  <2> DEFINE ml == V!Meaning(l, command.signed)
             mr == V!Meaning(r, command.signed)
  <2>1. CASE command.opcode \in {"ADD", "MULTIPLY", "SCALE"}
    BY <2>1 DEF V!execute_element, V!ExactValue
  <2>2. CASE command.opcode = "RELU"
    <3>1. (IF ml < 0 THEN 0 ELSE ml) = IF ml > 0 THEN ml ELSE 0
      BY <1>1
    <3> QED BY <2>2, <3>1 DEF V!execute_element, V!ExactValue
  <2>3. CASE command.opcode = "CLAMP"
    <3>1. (IF ml < 0 \/ mr < 0 THEN 0 ELSE IF ml > mr THEN mr ELSE ml)
            = LET n == IF ml < mr THEN ml ELSE mr IN IF n > 0 THEN n ELSE 0
      BY <1>1
    <3> QED BY <2>3, <3>1 DEF V!execute_element, V!ExactValue
  <2> QED BY <2>1, <2>2, <2>3 DEF V!VectorOpcodes
<1>4. command.opcode = "RELU" => x = V!ExactValue(l, 0, command)
  BY DEF V!ExactValue
<1> HIDE DEF x
<1> QED BY <1>2, <1>3, <1>4, VectorElements DEF V!IsResult, x

\* The computed word holds the results of its valid lanes.
LEMMA VectorExecuteData ==
  ASSUME VectorInv, VectorData, V!Execute
  PROVE  VectorData'
<1>1. /\ state = "VECTOR_EXECUTE" /\ state' = "VECTOR_WRITE_REQUEST"
      /\ UNCHANGED <<active, before, memory, elements_remaining>> /\ completed' = completed + 0
      /\ UNCHANGED <<source0_word, source1_word, scalar_element>>
      /\ result_word' = V!computed_word
  BY DEF V!Execute, V!Handshake, V!Proceed, V!addressVars
<1>2. state \in VectorWorking
  BY <1>1 DEF VectorWorking
<1>3. VectorProgress /\ VectorTypes
  BY <1>2 DEF VectorData
<1>4. active.opcode \in V!VectorOpcodes
  BY <1>2 DEF VectorInv, VectorAdmitted
<1>5. Vector.elements_per_word \in Nat \ {0} /\ \A lane \in V!Lanes : lane \in Int
  BY ParametersValid DEF V!CoreParameters, V!Lanes
<1>6. VectorLanes(elements_remaining) = V!current_write_strobe
  BY <1>2, <1>5, VectorPlace
     DEF VectorLanes, V!current_write_strobe, V!current_word_elements, V!final_word, V!Lanes
<1> DEFINE right(lane) == IF active.opcode = "SCALE" THEN scalar_element ELSE source1_word[lane]
<1>7. ASSUME NEW lane \in V!Lanes
      PROVE  source0_word[lane] \in V!Elements /\ right(lane) \in V!Elements
  BY <1>3 DEF VectorTypes
<1>8. \A lane \in VectorLanes(elements_remaining) :
         result_word'[lane] = V!execute_element(source0_word[lane], right(lane), active)
  BY <1>1, <1>6 DEF V!computed_word, VectorLanes
<1>9. 0 \in V!Elements
  BY VectorElements DEF Even
<1>10. result_word' \in [V!Lanes -> V!Elements]
  <2>1. ASSUME NEW lane \in V!Lanes
        PROVE  V!execute_element(source0_word[lane], right(lane), active) \in V!Elements
    BY <1>4, <1>7, VectorComputes
  <2> QED BY <1>1, <1>9, <2>1 DEF V!computed_word
<1>11. VectorTypes'
  BY <1>1, <1>3, <1>10 DEF VectorTypes
<1>12. ASSUME VectorSafe(active), NEW lane \in VectorLanes(elements_remaining)
       PROVE  VectorResult(active, before, VectorPosition + lane, result_word'[lane])
  <2> DEFINE i == VectorPosition + lane
  <2>1. lane \in V!Lanes
    BY DEF VectorLanes
  <2>2. source0_word[lane] = before[active.src0 + i]
    BY <1>1, <1>3, <1>12 DEF VectorProgress
  <2>3. active.opcode # "RELU" => right(lane) = VectorOperand(active, before, i)
    <3>1. CASE active.opcode = "SCALE"
      BY <1>1, <1>3, <3>1 DEF VectorProgress, VectorScalar, VectorOperand
    <3>2. CASE V!vector_opcode_uses_source1(active.opcode)
      BY <1>1, <1>3, <1>12, <3>2
         DEF VectorProgress, VectorOperand, V!vector_opcode_uses_source1
    <3> QED BY <1>4, <3>1, <3>2 DEF V!VectorOpcodes, V!vector_opcode_uses_source1
  <2>4. active.opcode = "RELU" => VectorOperand(active, before, i) = 0
    BY DEF VectorOperand
  <2> HIDE DEF i, right
  <2>5. V!IsResult(result_word'[lane], before[active.src0 + i],
                   VectorOperand(active, before, i), active)
    BY <1>4, <1>7, <1>8, <2>1, <2>2, <2>3, <2>4, VectorComputes
  <2> QED BY <2>5 DEF VectorResult, i
<1>13. completed' = completed
  BY <1>1, <1>2, <1>3, VectorPlace DEF VectorProgress
<1>14. VectorPosition' = VectorPosition
  BY <1>1 DEF VectorPosition
<1>15. VectorProgress'
  BY <1>1, <1>3, <1>12, <1>13, <1>14 DEF VectorProgress, VectorScalar
<1> QED BY <1>1, <1>11, <1>15 DEF VectorData

\* A write adds its lanes to the results and changes nothing else.
LEMMA VectorStores ==
  ASSUME VectorInv, VectorData, state = "VECTOR_WRITE_RESPONSE"
  PROVE  /\ V!Written \in [V!Space -> V!Elements]
         /\ VectorCount(elements_remaining) \in Nat \ {0}
         /\ V!current_word_elements = VectorCount(elements_remaining)
         /\ VectorSafe(active) =>
              VectorPrefix(V!Written, before, active,
                           VectorPosition + VectorCount(elements_remaining))
<1> DEFINE p == VectorPosition
           c == VectorCount(elements_remaining)
<1>1. state \in VectorWorking
  BY DEF VectorWorking
<1>2. VectorProgress /\ VectorTypes
  BY <1>1 DEF VectorData
<1>3. Vector.elements_per_word \in Nat \ {0}
  BY ParametersValid DEF V!CoreParameters
<1>4. /\ p \in Nat /\ active.dst \in Nat /\ destination_address = active.dst + p
      /\ elements_remaining \in Nat \ {0}
  BY <1>1, VectorPlace
<1>5. c \in Nat \ {0} /\ V!current_word_elements = c
  BY <1>3, <1>4 DEF VectorCount, V!current_word_elements, V!final_word
<1>6. /\ V!current_write_strobe = 0 .. c - 1
      /\ VectorLanes(elements_remaining) = 0 .. c - 1
      /\ V!current_write_strobe \subseteq V!Lanes
  BY <1>3, <1>4, <1>5 DEF V!current_write_strobe, VectorLanes, VectorCount, V!Lanes
<1>7. \A a \in V!Space : a \in Int
  BY <1>3, ParametersValid DEF V!Space, V!CoreParameters
<1> HIDE DEF p, c
<1>8. V!Written = [a \in V!Space |-> IF a - destination_address \in 0 .. c - 1
                                       THEN result_word[a - destination_address]
                                       ELSE memory[a]]
  BY <1>6 DEF V!Written, V!Store
<1>9. V!Written \in [V!Space -> V!Elements]
  BY <1>2, <1>6, <1>8 DEF VectorTypes
<1>10. ASSUME VectorSafe(active) PROVE VectorPrefix(V!Written, before, active, p + c)
  <2>1. VectorPrefix(memory, before, active, p)
    BY <1>2, <1>10 DEF VectorProgress, p
  <2>2. ASSUME NEW a \in V!Space
        PROVE  IF a - active.dst \in 0 .. (p + c) - 1
                 THEN VectorResult(active, before, a - active.dst, V!Written[a])
                 ELSE V!Written[a] = before[a]
    <3>1. a \in Int /\ a - destination_address = (a - active.dst) - p
      BY <1>4, <1>7
    <3>2. CASE a - active.dst \in 0 .. p - 1
      <4>1. a - destination_address \notin 0 .. c - 1 /\ a - active.dst \in 0 .. (p + c) - 1
        BY <1>4, <1>5, <3>1, <3>2
      <4> QED BY <1>8, <2>1, <3>2, <4>1 DEF VectorPrefix
    <3>3. CASE a - destination_address \in 0 .. c - 1
      <4>1. a - active.dst \in 0 .. (p + c) - 1
            /\ a - active.dst = p + (a - destination_address)
        BY <1>4, <1>5, <3>1, <3>3
      <4>2. V!Written[a] = result_word[a - destination_address]
        BY <1>8, <3>3
      <4>3. VectorResult(active, before, p + (a - destination_address),
                         result_word[a - destination_address])
        BY <1>2, <1>6, <1>10, <3>3 DEF VectorProgress, p
      <4> QED BY <4>1, <4>2, <4>3
    <3>4. CASE a - active.dst \notin 0 .. p - 1 /\ a - destination_address \notin 0 .. c - 1
      <4>1. a - active.dst \notin 0 .. (p + c) - 1
        BY <1>4, <1>5, <3>1, <3>4
      <4> QED BY <1>8, <2>1, <3>4, <4>1 DEF VectorPrefix
    <3> QED BY <3>2, <3>3, <3>4
  <2> QED BY <2>2 DEF VectorPrefix
<1> QED BY <1>5, <1>9, <1>10 DEF p, c

\* A written word extends the prefix of results by its valid lanes.
LEMMA VectorWrittenData ==
  ASSUME VectorInv, VectorData, V!WordWritten
  PROVE  VectorData'
<1> DEFINE c == VectorCount(elements_remaining)
<1>1. /\ state = "VECTOR_WRITE_RESPONSE" /\ memory' = V!Written
      /\ UNCHANGED <<active, before, source0_word, source1_word, scalar_element, result_word>>
      /\ completed' = completed + V!current_word_elements
  BY DEF V!WordWritten, V!Finish, V!Proceed
<1>2. state \in VectorWorking
  BY <1>1 DEF VectorWorking
<1>3. VectorProgress /\ VectorTypes
  BY <1>2 DEF VectorData
<1>4. VectorTypes'
  BY <1>1, <1>3, VectorStores DEF VectorTypes
<1>5. /\ completed' = VectorPosition + c /\ c \in Nat \ {0} /\ V!current_word_elements = c
      /\ VectorSafe(active) => VectorPrefix(memory', before, active, VectorPosition + c)
  BY <1>1, <1>3, VectorStores DEF VectorProgress
<1>6. /\ VectorPosition \in Nat /\ active.length \in Nat /\ elements_remaining \in Nat
      /\ elements_remaining = active.length - VectorPosition
      /\ Vector.elements_per_word \in Nat \ {0}
  BY <1>2, VectorPlace, ParametersValid DEF V!CoreParameters
<1>7. CASE V!final_word
  <2>1. c = elements_remaining
    BY <1>7 DEF V!final_word, VectorCount
  <2>2. VectorPosition + c = active.length
    BY <1>6, <2>1
  <2>3. /\ state' = "VECTOR_RESPONSE"
        /\ response' = [error |-> "ERR_NONE", result |-> active.length]
    BY <1>7 DEF V!WordWritten, V!Finish
  <2>4. VectorAnswer'
    BY <1>1, <1>5, <1>6, <2>2, <2>3 DEF VectorAnswer
  <2> QED BY <1>4, <2>3, <2>4 DEF VectorData, VectorWorking, V!RequestStates, V!ReadStates
<1>8. CASE ~V!final_word
  <2>1. c = Vector.elements_per_word
    BY <1>8 DEF V!final_word, VectorCount
  <2>2. /\ state' = "VECTOR_SOURCE0_REQUEST"
        /\ elements_remaining' = elements_remaining - c
    BY <1>8, <2>1 DEF V!WordWritten, V!Proceed
  <2>3. VectorPosition' = VectorPosition + c /\ elements_remaining' # active.length
    BY <1>1, <1>5, <1>6, <2>2 DEF VectorPosition
  <2>4. active.opcode = "SCALE" => scalar_element = before[active.src1]
    BY <1>1, <1>3 DEF VectorProgress, VectorScalar
  <2>5. VectorProgress'
    BY <1>1, <1>5, <2>2, <2>3, <2>4 DEF VectorProgress, VectorScalar
  <2> QED BY <1>4, <2>2, <2>5 DEF VectorData
<1> QED BY <1>7, <1>8

\* A failed access leaves the prefix, at most with the word being written.
LEMMA VectorFailsData ==
  ASSUME VectorInv, VectorData, V!AccessFails
  PROVE  VectorData'
<1> USE DEF VectorWorking, V!ReadStates
<1>1. /\ state' = "VECTOR_RESPONSE" /\ completed' = completed + 0
      /\ response' = [error |-> "ERR_ADDRESS", result |-> 0]
      /\ state \in V!ReadStates \cup {"VECTOR_WRITE_RESPONSE"}
      /\ UNCHANGED <<active, before, elements_remaining, source0_word, source1_word,
                     scalar_element, result_word>>
      /\ memory' = memory \/ (state = "VECTOR_WRITE_RESPONSE" /\ memory' = V!Written)
  BY DEF V!AccessFails, V!MemoryError, V!Finish, V!vectorVars
<1>2. state \in VectorWorking
  BY <1>1
<1>3. VectorProgress /\ VectorTypes
  BY <1>2 DEF VectorData
<1>4. VectorTypes'
  BY <1>1, <1>3, VectorStores DEF VectorTypes
<1>5. completed' = VectorPosition /\ completed' \in Nat
  BY <1>1, <1>2, <1>3, VectorPlace DEF VectorProgress
<1>6. VectorAnswer'
  <2>1. CASE memory' = memory
    <3>1. VectorSafe(active) => VectorPrefix(memory', before, active, completed')
      BY <1>3, <1>5, <2>1 DEF VectorProgress
    <3> QED BY <1>1, <1>5, <3>1 DEF VectorAnswer
  <2>2. CASE state = "VECTOR_WRITE_RESPONSE" /\ memory' = V!Written
    <3>1. VectorSafe(active) =>
            VectorPrefix(memory', before, active, completed' + VectorCount(elements_remaining'))
      BY <1>1, <1>5, <2>2, VectorStores
    <3> QED BY <1>1, <1>5, <3>1 DEF VectorAnswer
  <2> QED BY <1>1, <2>1, <2>2
<1> QED BY <1>1, <1>4, <1>6 DEF VectorData, V!RequestStates

\* An accepted or refused command has stored nothing yet.
LEMMA VectorAcceptedData ==
  ASSUME accepted \in Nat, VectorData, NEW command \in V!Offered, V!AcceptCommand(command)
  PROVE  VectorData'
<1>1. /\ active' = command /\ before' = memory /\ memory' = memory /\ completed' = 0
      /\ UNCHANGED <<source0_word, source1_word, scalar_element, result_word>>
  BY DEF V!AcceptCommand, V!Accept
<1>2. VectorTypes'
  BY <1>1 DEF VectorData, VectorTypes
<1>3. CASE V!command_validation_error(command) # "ERR_NONE"
  <2>1. /\ state' = "VECTOR_RESPONSE"
        /\ response' = [error |-> V!command_validation_error(command), result |-> 0]
    BY <1>3 DEF V!AcceptCommand, V!Accept
  <2>2. VectorAnswer'
    BY <1>1, <1>3, <2>1 DEF VectorAnswer
  <2> QED BY <1>2, <2>1, <2>2 DEF VectorData, VectorWorking, V!RequestStates, V!ReadStates
<1>4. CASE V!command_validation_error(command) = "ERR_NONE"
  <2>1. /\ elements_remaining' = command.length
        /\ state' = IF command.opcode = "SCALE" THEN "VECTOR_SCALAR_REQUEST"
                    ELSE "VECTOR_SOURCE0_REQUEST"
    BY <1>4 DEF V!AcceptCommand, V!Accept
  <2>2. VectorInv'
    BY VectorAccepted
  <2>3. command.length \in Nat
    BY <1>4, ParametersValid DEF V!command_validation_error, V!VectorParameters
  <2>4. VectorPosition' = 0
    BY <1>1, <2>1, <2>3 DEF VectorPosition
  <2>5. VectorPrefix(memory', before', active', 0)
    BY <1>1 DEF VectorPrefix
  <2>6. VectorProgress'
    BY <1>1, <2>1, <2>4, <2>5 DEF VectorProgress, VectorScalar
  <2>7. state' \in VectorWorking /\ state' # "VECTOR_RESPONSE"
    BY <2>1 DEF VectorWorking, V!RequestStates
  <2> QED BY <1>2, <2>6, <2>7 DEF VectorData
<1> QED BY <1>3, <1>4

\* A step that changes neither data nor command.
LEMMA VectorDataKept ==
  ASSUME VectorData,
         UNCHANGED <<active, response, memory, before, elements_remaining, completed,
                     source0_word, source1_word, scalar_element, result_word>>
  PROVE  /\ VectorTypes'
         /\ state' = state => VectorData'
         /\ VectorAnswer => VectorAnswer'
BY DEF VectorData, VectorTypes, VectorProgress, VectorAnswer, VectorPosition

\* Every step keeps the prefix of the results exact.
LEMMA VectorDataInductive ==
  ASSUME VectorInv, VectorData, V!Next
  PROVE  VectorData'
<1> USE DEF VectorWorking, V!RequestStates, V!ReadStates
<1>1. ASSUME NEW command \in V!Offered, V!AcceptCommand(command) PROVE VectorData'
  BY <1>1, VectorAcceptedData DEF VectorInv
<1>2. CASE V!Wait
  <2>1. /\ state' = state /\ completed' = completed + 0
        /\ UNCHANGED <<active, response, memory, before, elements_remaining,
                       source0_word, source1_word, scalar_element, result_word>>
    BY <1>2 DEF V!Wait, V!Hold, V!Proceed, V!vectorVars
  <2>2. CASE state \in VectorWorking
    <3>1. completed \in Nat
      BY <2>2, VectorPlace DEF VectorData, VectorProgress
    <3> QED BY <2>1, <3>1, VectorDataKept
  <2>3. CASE state = "VECTOR_RESPONSE"
    <3>1. completed \in Nat
      BY <2>3 DEF VectorData, VectorAnswer
    <3> QED BY <2>1, <3>1, VectorDataKept
  <2>4. CASE state = "VECTOR_IDLE"
    BY <2>1, <2>4 DEF VectorData, VectorTypes
  <2> QED BY <1>2, <2>2, <2>3, <2>4 DEF V!Wait, V!Hold
<1>3. CASE V!RequestFire
  <2>1. /\ state \in V!RequestStates
        /\ state' = CASE state = "VECTOR_SCALAR_REQUEST" -> "VECTOR_SCALAR_RESPONSE"
                      [] state = "VECTOR_SOURCE0_REQUEST" -> "VECTOR_SOURCE0_RESPONSE"
                      [] state = "VECTOR_SOURCE1_REQUEST" -> "VECTOR_SOURCE1_RESPONSE"
                      [] OTHER -> "VECTOR_WRITE_RESPONSE"
        /\ completed' = completed + 0
        /\ UNCHANGED <<active, response, memory, before, elements_remaining,
                       source0_word, source1_word, scalar_element, result_word>>
    BY <1>3 DEF V!RequestFire, V!Handshake, V!Proceed, V!vectorVars
  <2>2. VectorProgress /\ completed' = completed
    BY <2>1, VectorPlace DEF VectorData, VectorProgress
  <2>3. VectorPosition' = VectorPosition
    BY <2>1 DEF VectorPosition
  <2>4. VectorProgress'
    BY <2>1, <2>2, <2>3 DEF VectorProgress, VectorScalar
  <2> QED BY <2>1, <2>2, <2>4, VectorDataKept DEF VectorData
<1>4. CASE V!Respond
  BY <1>4 DEF V!Respond, V!Handshake, V!Proceed, V!vectorVars, VectorData, VectorTypes
<1>5. CASE V!Reset
  <2>1. 0 \in V!Elements
    BY VectorElements DEF Even
  <2>2. V!ZeroWord \in [V!Lanes -> V!Elements]
    BY <2>1 DEF V!ZeroWord
  <2> QED BY <1>5, <2>1, <2>2 DEF V!Reset, V!CoreReset, VectorData, VectorTypes
<1> QED BY <1>1, <1>2, <1>3, <1>4, <1>5, VectorScalarData, VectorSource0Data, VectorSource1Data,
           VectorExecuteData, VectorWrittenData, VectorFailsData DEF V!Next, V!Advance

\* It holds at the start.
LEMMA VectorDataStarts == V!Init => VectorData
<1> SUFFICES ASSUME V!Init PROVE VectorData
  OBVIOUS
<1>1. 0 \in V!Elements
  BY VectorElements DEF Even
<1>2. V!ZeroWord \in [V!Lanes -> V!Elements]
  BY <1>1 DEF V!ZeroWord
<1> QED BY <1>1, <1>2, ContentsAreElements
        DEF V!Init, V!CoreInit, VectorData, VectorTypes, VectorWorking, V!RequestStates,
            V!ReadStates

\* From there every answer of the vector accelerator is as promised.
LEMMA VectorAnswers ==
  ASSUME VectorData
  PROVE  V!ResultExact /\ V!FailureKeepsPrefix
<1>1. VectorSafe(active) <=> V!ForwardSafe
  BY DEF VectorSafe, V!ForwardSafe
<1>2. ASSUME NEW n PROVE V!Prefix(n) <=> VectorPrefix(memory, before, active, n)
  <2>1. ASSUME NEW a \in V!Space
        PROVE  V!IsResult(memory[a], before[active.src0 + a - active.dst],
                          V!Operand(a - active.dst), active)
                 <=> VectorResult(active, before, a - active.dst, memory[a])
    BY DEF VectorResult, VectorOperand, V!Operand
  <2> QED BY <2>1 DEF V!Prefix, VectorPrefix
<1>3. VectorCount(elements_remaining) = V!current_word_elements
  BY DEF VectorCount, V!current_word_elements, V!final_word
<1> QED BY <1>1, <1>2, <1>3 DEF VectorData, VectorAnswer, V!ResultExact, V!FailureKeepsPrefix

----------------------------------------------------------------------------
(* Sums.  SumFunction adds the values of a function in some order, by      *)
(* recursion over the subsets of its domain.                               *)

\* The element SumFunction takes next, and one step of its sum.
AnyOf(s) == CHOOSE x \in s : TRUE
Added(f, g, s) == IF s = {} THEN 0 ELSE f[AnyOf(s)] + g[s \ {AnyOf(s)}]

\* g gives the sums of f over sets of a collection.
Adds(f, g, C) == g = [s \in C |-> Added(f, g, s)]

Sums(f, S) == CHOOSE g : Adds(f, g, SUBSET S)
Sum(f, S) == Sums(f, S)[S]

\* Taking one element from a finite set leaves one fewer.
LEMMA OneLess ==
  ASSUME NEW S, IsFiniteSet(S), NEW s \in SUBSET S, s # {}
  PROVE  /\ AnyOf(s) \in s /\ s \ {AnyOf(s)} \in SUBSET S
         /\ Cardinality(s) \in Nat /\ Cardinality(s \ {AnyOf(s)}) = Cardinality(s) - 1
<1>1. AnyOf(s) \in s
  BY DEF AnyOf
<1>2. IsFiniteSet(s)
  BY FS_Subset
<1> QED BY <1>1, <1>2, FS_RemoveElement, FS_CardinalityType

\* The sums over the sets of at most n elements exist, by induction on n.
LEMMA SmallSums ==
  ASSUME NEW S, IsFiniteSet(S), NEW f
  PROVE  \A n \in Nat : \E g : Adds(f, g, {t \in SUBSET S : Cardinality(t) <= n})
<1> DEFINE upto(n) == {t \in SUBSET S : Cardinality(t) <= n}
           missing == {n \in Nat : ~ \E g : Adds(f, g, upto(n))}
<1>0. \A s \in SUBSET S : IsFiniteSet(s) /\ Cardinality(s) \in Nat
  BY FS_Subset, FS_CardinalityType
<1>1. \E g : Adds(f, g, upto(0))
  <2> DEFINE g == [s \in upto(0) |-> 0]
  <2>1. \A s \in upto(0) : s = {}
    BY <1>0, FS_EmptySet
  <2>2. g = [s \in upto(0) |-> Added(f, g, s)]
    BY <2>1 DEF Added
  <2> QED BY <2>2 DEF Adds
<1>2. ASSUME NEW n \in Nat, NEW g, Adds(f, g, upto(n)) PROVE \E h : Adds(f, h, upto(n + 1))
  <2> DEFINE h == [s \in upto(n + 1) |-> Added(f, g, s)]
  <2>2. ASSUME NEW s \in upto(n + 1) PROVE Added(f, h, s) = Added(f, g, s)
    <3>1. CASE s = {}
      BY <3>1 DEF Added
    <3>2. CASE s # {}
      <4>1. s \ {AnyOf(s)} \in upto(n) /\ s \ {AnyOf(s)} \in upto(n + 1)
        BY <3>2, OneLess
      <4>2. h[s \ {AnyOf(s)}] = g[s \ {AnyOf(s)}]
        BY <1>2, <4>1 DEF Adds
      <4> QED BY <3>2, <4>2 DEF Added
    <3> QED BY <3>1, <3>2
  <2>3. h = [s \in upto(n + 1) |-> Added(f, h, s)]
    BY <2>2
  <2> QED BY <2>3 DEF Adds
<1>3. ASSUME missing # {} PROVE FALSE
  <2>1. PICK n \in missing : \A m \in missing : n <= m
    BY <1>3, LeastNatural
  <2>2. n # 0
    BY <1>1, <2>1
  <2>3. PICK m \in Nat : n = m + 1 /\ m \notin missing
    <3>1. n \in Nat
      OBVIOUS
    <3> HIDE DEF missing
    <3>2. n - 1 \in Nat /\ n = (n - 1) + 1 /\ ~(n <= n - 1)
      BY <2>2, <3>1
    <3> QED BY <2>1, <3>2
  <2>4. PICK g : Adds(f, g, upto(m))
    BY <2>3
  <2>5. \E h : Adds(f, h, upto(m + 1))
    BY <1>2, <2>4
  <2> QED BY <2>1, <2>3, <2>5
<1> QED BY <1>3

\* So the recursion defines a function.
LEMMA SumsExist ==
  ASSUME NEW S, IsFiniteSet(S), NEW f
  PROVE  Adds(f, Sums(f, S), SUBSET S)
<1>1. PICK g : Adds(f, g, {t \in SUBSET S : Cardinality(t) <= Cardinality(S)})
  BY SmallSums, FS_CardinalityType
<1>2. {t \in SUBSET S : Cardinality(t) <= Cardinality(S)} = SUBSET S
  BY FS_Subset
<1> QED BY <1>1, <1>2 DEF Sums

\* A sum depends on nothing but the values added.
LEMMA SumsAgree ==
  ASSUME NEW S, IsFiniteSet(S), NEW T, IsFiniteSet(T), NEW U, IsFiniteSet(U),
         S \subseteq T, S \subseteq U, NEW f, NEW e, \A x \in S : f[x] = e[x]
  PROVE  Sums(f, T)[S] = Sums(e, U)[S]
<1> DEFINE g == Sums(f, T)
           h == Sums(e, U)
           bad == {n \in Nat : \E s \in SUBSET S : Cardinality(s) = n /\ g[s] # h[s]}
<1>0. Adds(f, g, SUBSET T) /\ Adds(e, h, SUBSET U)
  BY SumsExist
<1> HIDE DEF g, h
<1>1. ASSUME bad # {} PROVE FALSE
  <2>1. PICK n \in bad : \A m \in bad : n <= m
    BY <1>1, LeastNatural
  <2>2. PICK s \in SUBSET S : Cardinality(s) = n /\ g[s] # h[s]
    BY <2>1
  <2>3. g[s] = Added(f, g, s) /\ h[s] = Added(e, h, s)
    BY <1>0 DEF Adds
  <2>4. s # {}
    BY <2>2, <2>3 DEF Added
  <2>5. /\ AnyOf(s) \in s /\ s \ {AnyOf(s)} \in SUBSET S
        /\ Cardinality(s) \in Nat /\ Cardinality(s \ {AnyOf(s)}) = Cardinality(s) - 1
    BY <2>4, OneLess
  <2>6. n - 1 \notin bad
    BY <2>1
  <2>7. n - 1 \in Nat
    BY <2>2, <2>5, FS_CardinalityType, FS_Subset
  <2>8. g[s \ {AnyOf(s)}] = h[s \ {AnyOf(s)}]
    BY <2>2, <2>5, <2>6, <2>7
  <2> QED BY <2>2, <2>3, <2>4, <2>5, <2>8 DEF Added
<1>2. Cardinality(S) \in Nat
  BY FS_CardinalityType
<1>3. g[S] = h[S]
  BY <1>1, <1>2
<1> QED BY <1>3 DEF g, h

\* The sum over no elements is 0.
LEMMA SumEmpty == \A f : Sum(f, {}) = 0
<1> SUFFICES ASSUME NEW f PROVE Sum(f, {}) = 0
  OBVIOUS
<1>1. Adds(f, Sums(f, {}), SUBSET {})
  BY SumsExist, FS_EmptySet
<1> QED BY <1>1 DEF Adds, Added, Sum

\* The next element of the sum.
LEMMA SumTakes ==
  ASSUME NEW S, IsFiniteSet(S), S # {}, NEW f
  PROVE  Sum(f, S) = f[AnyOf(S)] + Sum(f, S \ {AnyOf(S)})
<1> DEFINE T == S \ {AnyOf(S)}
<1>1. Sums(f, S)[S] = Added(f, Sums(f, S), S)
  <2>1. Adds(f, Sums(f, S), SUBSET S)
    BY SumsExist
  <2> QED BY <2>1 DEF Adds
<1>2. IsFiniteSet(T) /\ T \subseteq S
  BY FS_Subset
<1> HIDE DEF T
<1>3. Sums(f, S)[T] = Sums(f, T)[T]
  BY <1>2, SumsAgree
<1> QED BY <1>1, <1>3 DEF Added, Sum, T

\* A sum of integers is an integer.
LEMMA SumInteger ==
  ASSUME NEW S, IsFiniteSet(S), NEW f, \A x \in S : f[x] \in Int
  PROVE  Sum(f, S) \in Int
<1> DEFINE bad == {n \in Nat : \E s \in SUBSET S : Cardinality(s) = n /\ Sum(f, s) \notin Int}
<1>1. ASSUME bad # {} PROVE FALSE
  <2>1. PICK n \in bad : \A m \in bad : n <= m
    BY <1>1, LeastNatural
  <2>2. PICK s \in SUBSET S : Cardinality(s) = n /\ Sum(f, s) \notin Int
    BY <2>1
  <2>3. s # {}
    BY <2>2, SumEmpty
  <2>4. /\ AnyOf(s) \in s /\ s \ {AnyOf(s)} \in SUBSET S
        /\ Cardinality(s) \in Nat /\ Cardinality(s \ {AnyOf(s)}) = Cardinality(s) - 1
    BY <2>3, OneLess
  <2>5. IsFiniteSet(s) /\ IsFiniteSet(s \ {AnyOf(s)})
    BY FS_Subset
  <2>6. n - 1 \in Nat /\ n - 1 \notin bad
    BY <2>1, <2>2, <2>4, <2>5, FS_CardinalityType
  <2>7. Sum(f, s \ {AnyOf(s)}) \in Int
    BY <2>2, <2>4, <2>6
  <2>8. f[AnyOf(s)] \in Int
    BY <2>4
  <2>9. Sum(f, s) = f[AnyOf(s)] + Sum(f, s \ {AnyOf(s)})
    BY <2>3, <2>5, SumTakes
  <2> QED BY <2>2, <2>7, <2>8, <2>9
<1>2. Cardinality(S) \in Nat
  BY FS_CardinalityType
<1> QED BY <1>1, <1>2

\* The order does not matter: any element may be the next.
LEMMA SumRemove ==
  ASSUME NEW S, IsFiniteSet(S), NEW f, \A x \in S : f[x] \in Int, NEW y \in S
  PROVE  Sum(f, S) = f[y] + Sum(f, S \ {y})
<1> DEFINE wrong(s) == \E x \in s : Sum(f, s) # f[x] + Sum(f, s \ {x})
           bad == {n \in Nat : \E s \in SUBSET S : Cardinality(s) = n /\ wrong(s)}
<1>1. ASSUME bad # {} PROVE FALSE
  <2>1. PICK n \in bad : \A m \in bad : n <= m
    BY <1>1, LeastNatural
  <2>2. PICK s \in SUBSET S : Cardinality(s) = n /\ wrong(s)
    BY <2>1
  <2>3. PICK x \in s : Sum(f, s) # f[x] + Sum(f, s \ {x})
    BY <2>2
  <2> DEFINE t == AnyOf(s)
  <2>4. /\ t \in s /\ s \ {t} \in SUBSET S
        /\ Cardinality(s) \in Nat /\ Cardinality(s \ {t}) = Cardinality(s) - 1
    BY <2>3, OneLess
  <2>5. IsFiniteSet(s) /\ IsFiniteSet(s \ {t}) /\ IsFiniteSet(s \ {x})
        /\ IsFiniteSet(s \ {t, x})
    BY FS_Subset
  <2>6. Cardinality(s \ {x}) = Cardinality(s) - 1
    BY <2>5, FS_RemoveElement
  <2>7. Sum(f, s) = f[t] + Sum(f, s \ {t})
    BY <2>3, <2>5, SumTakes
  <2>8. t # x
    BY <2>3, <2>7
  <2>9. n - 1 \in Nat /\ n - 1 \notin bad
    <3>1. n - 1 \in Nat
      BY <2>2, <2>4, <2>5, FS_CardinalityType
    <3> QED BY <2>1, <3>1
  <2> HIDE DEF t
  <2>10. ~wrong(s \ {t}) /\ ~wrong(s \ {x})
    BY <2>2, <2>4, <2>6, <2>9
  <2>11. (s \ {t}) \ {x} = s \ {t, x} /\ (s \ {x}) \ {t} = s \ {t, x}
    OBVIOUS
  <2>12. /\ Sum(f, s \ {t}) = f[x] + Sum(f, s \ {t, x})
         /\ Sum(f, s \ {x}) = f[t] + Sum(f, s \ {t, x})
    BY <2>3, <2>4, <2>8, <2>10, <2>11
  <2>13. f[t] \in Int /\ f[x] \in Int /\ Sum(f, s \ {t, x}) \in Int
    BY <2>3, <2>4, <2>5, SumInteger
  <2> QED BY <2>3, <2>7, <2>12, <2>13
<1>2. Cardinality(S) \in Nat
  BY FS_CardinalityType
<1> QED BY <1>1, <1>2

\* SumFunction of the community modules is this sum.
LEMMA SumFunctions ==
  ASSUME NEW S, NEW f, DOMAIN f = S
  PROVE  R!SumFunction(f) = Sum(f, S) /\ G!SumFunction(f) = Sum(f, S)
BY DEF Sum, Sums, Adds, Added, AnyOf,
   R!SumFunction, R!SumFunctionOnSet, R!FoldFunctionOnSet, R!MapThenFoldSet,
   G!SumFunction, G!SumFunctionOnSet, G!FoldFunctionOnSet, G!MapThenFoldSet

\* An interval, one longer.
LEMMA SumGrows ==
  ASSUME NEW b \in Int, NEW n \in Nat, NEW f, \A x \in b .. b + n : f[x] \in Int
  PROVE  /\ Sum(f, b .. b + n - 1) \in Int
         /\ Sum(f, b .. b + n) = Sum(f, b .. b + n - 1) + f[b + n]
<1>1. IsFiniteSet(b .. b + n) /\ IsFiniteSet(b .. b + n - 1)
  BY FS_Interval
<1>2. (b .. b + n) \ {b + n} = b .. b + n - 1
  OBVIOUS
<1>3. Sum(f, b .. b + n) = f[b + n] + Sum(f, (b .. b + n) \ {b + n})
  <2>1. PICK s : s = b .. b + n
    OBVIOUS
  <2>2. IsFiniteSet(s) /\ b + n \in s /\ \A x \in s : f[x] \in Int
    BY <1>1, <2>1
  <2>3. Sum(f, s) = f[b + n] + Sum(f, s \ {b + n})
    BY <2>2, SumRemove
  <2> QED BY <2>1, <2>3
<1>4. Sum(f, b .. b + n - 1) \in Int
  BY <1>1, SumInteger
<1>5. f[b + n] \in Int
  <2>1. b + n \in b .. b + n
    OBVIOUS
  <2> QED BY <2>1
<1>6. Sum(f, b .. b + n) = f[b + n] + Sum(f, b .. b + n - 1)
  BY <1>2, <1>3
<1>7. \A x, y \in Int : x + y = y + x
  OBVIOUS
<1> QED BY <1>4, <1>5, <1>6, <1>7

\* Bounds of a sum.
LEMMA SumBounded ==
  ASSUME NEW lo \in Int, NEW hi \in Int, NEW b \in Int, NEW f,
         NEW n \in Nat, \A x \in b .. b + n - 1 : f[x] \in lo .. hi
  PROVE  Sum(f, b .. b + n - 1) \in n * lo .. n * hi
<1> DEFINE sum(i) == Sum(f, b .. b + i - 1)
           bad == {i \in 0 .. n : sum(i) \notin i * lo .. i * hi}
<1>1. ASSUME bad # {} PROVE FALSE
  <2>0. bad \in SUBSET Nat
    OBVIOUS
  <2>1. PICK i \in bad : \A j \in bad : i <= j
    <3> HIDE DEF bad
    <3> QED BY <1>1, <2>0, LeastNatural
  <2>2. i # 0
    <3>1. b .. b + 0 - 1 = {}
      OBVIOUS
    <3>2. sum(0) = 0 /\ 0 * lo = 0 /\ 0 * hi = 0
      BY <3>1, SumEmpty
    <3> QED BY <2>1, <3>2
  <2>3. PICK k \in Nat : i = k + 1 /\ k \in 0 .. n /\ k + 1 \in 0 .. n
    <3>1. i - 1 \in Nat /\ i = (i - 1) + 1
      BY <2>1, <2>2
    <3> QED BY <2>1, <3>1
  <2>4. sum(k) \in k * lo .. k * hi
    <3>1. k \notin bad
      <4> HIDE DEF bad
      <4> QED BY <2>1, <2>3
    <3> QED BY <2>3, <3>1
  <2>5. f[b + k] \in lo .. hi
    BY <2>3
  <2>6. sum(k) \in Int /\ sum(k + 1) = sum(k) + f[b + k]
    <3>1. \A x \in b .. b + k : f[x] \in Int
      BY <2>3
    <3>2. b + (k + 1) - 1 = b + k
      BY <2>3
    <3> QED BY <3>1, <3>2, SumGrows
  <2>7. /\ (k + 1) * lo = k * lo + lo /\ (k + 1) * hi = k * hi + hi
        /\ k * lo \in Int /\ k * hi \in Int
    BY <2>3
  <2>8. sum(k + 1) \in (k + 1) * lo .. (k + 1) * hi
    <3> HIDE DEF sum
    <3> QED BY <2>4, <2>5, <2>6, <2>7
  <2> QED BY <2>1, <2>3, <2>8
<1>2. n \in 0 .. n
  OBVIOUS
<1> QED BY <1>1, <1>2

\* e holds c terms of f modulo m, from the n-th term after b on.
Continues(e, f, b, n, c, m) ==
  /\ \A x \in b .. b + n + c - 1 : f[x] \in Int
  /\ \A j \in 0 .. c - 1 : e[j] = f[b + n + j] % m

Congruent(x, y, m) == \E q \in Int : x = y + q * m

\* Appending them to the sum of the first n.
LEMMA SumAppends ==
  ASSUME NEW m \in Nat \ {0}, NEW b \in Int, NEW n \in Nat, NEW c \in Nat, NEW f, NEW e,
         Continues(e, f, b, n, c, m)
  PROVE  Congruent(Sum(f, b .. b + n + c - 1), Sum(f, b .. b + n - 1) + Sum(e, 0 .. c - 1), m)
<1> USE DEF Continues
<1> DEFINE whole(i) == Sum(f, b .. b + n + i - 1)
           part(i) == Sum(e, 0 .. 0 + i - 1)
           good(i) == \E q \in Int : whole(i) = whole(0) + part(i) + q * m
           bad == {i \in 0 .. c : ~good(i)}
<1>a. \A j \in 0 .. c - 1 : f[b + n + j] \in Int /\ e[j] \in Int
  <2> SUFFICES ASSUME NEW j \in 0 .. c - 1 PROVE f[b + n + j] \in Int /\ e[j] \in Int
    OBVIOUS
  <2>1. b + n + j \in b .. b + n + c - 1
    OBVIOUS
  <2>2. f[b + n + j] \in Int
    BY <2>1
  <2>3. \A y \in Int : y % m \in Int
    BY IntegerDivision
  <2> QED BY <2>2, <2>3
<1>0. /\ \A i \in 0 .. c : whole(i) \in Int /\ part(i) \in Int
      /\ \A i \in 0 .. c - 1 : /\ whole(i + 1) = whole(i) + f[b + n + i]
                               /\ part(i + 1) = part(i) + e[i]
  <2>1. \A j \in 0 .. c - 1 : e[j] \in Int
    BY <1>a
  <2>2. ASSUME NEW i \in 0 .. c PROVE whole(i) \in Int /\ part(i) \in Int
    <3>1. IsFiniteSet(b .. b + n + i - 1) /\ IsFiniteSet(0 .. 0 + i - 1)
      BY FS_Interval
    <3>2. \A x \in b .. b + n + i - 1 : f[x] \in Int
      OBVIOUS
    <3>3. \A x \in 0 .. 0 + i - 1 : e[x] \in Int
      BY <2>1
    <3> QED BY <3>1, <3>2, <3>3, SumInteger
  <2>3. ASSUME NEW i \in 0 .. c - 1
        PROVE  /\ whole(i + 1) = whole(i) + f[b + n + i]
               /\ part(i + 1) = part(i) + e[i]
    <3>1. whole(i + 1) = whole(i) + f[b + n + i]
      <4>1. n + i \in Nat /\ b + n + (i + 1) - 1 = b + (n + i) /\ b + n + i = b + (n + i)
            /\ b + n + i - 1 = b + (n + i) - 1
        OBVIOUS
      <4>2. \A x \in b .. b + (n + i) : f[x] \in Int
        OBVIOUS
      <4>3. Sum(f, b .. b + (n + i)) = Sum(f, b .. b + (n + i) - 1) + f[b + (n + i)]
        BY <4>1, <4>2, SumGrows
      <4> QED BY <4>1, <4>3
    <3>2. part(i + 1) = part(i) + e[i]
      <4>1. 0 + (i + 1) - 1 = 0 + i /\ 0 + i = i
        OBVIOUS
      <4>2. \A x \in 0 .. 0 + i : e[x] \in Int
        BY <2>1
      <4>3. Sum(e, 0 .. 0 + i) = Sum(e, 0 .. 0 + i - 1) + e[0 + i]
        <5>1. i \in Nat
          OBVIOUS
        <5>2. 0 \in Int
          OBVIOUS
        <5> QED BY <4>2, <5>1, <5>2, SumGrows
      <4> QED BY <4>1, <4>3
    <3> QED BY <3>1, <3>2
  <2> QED BY <2>2, <2>3
<1>1. good(0)
  <2>1. part(0) = 0
    <3>1. 0 .. 0 + 0 - 1 = {}
      OBVIOUS
    <3> QED BY <3>1, SumEmpty
  <2>2. whole(0) \in Int
    <3> HIDE DEF whole, part
    <3> QED BY <1>0, 0 \in 0 .. c
  <2> HIDE DEF whole, part
  <2>3. whole(0) = whole(0) + part(0) + 0 * m
    BY <2>1, <2>2
  <2> QED BY <2>3
<1>2. ASSUME NEW i \in 0 .. c - 1, good(i) PROVE good(i + 1)
  <2>1. PICK q \in Int : whole(i) = whole(0) + part(i) + q * m
    BY <1>2
  <2>2. f[b + n + i] \in Int /\ e[i] \in Int /\ e[i] = f[b + n + i] % m
    BY <1>a
  <2>3. PICK p \in Int : f[b + n + i] = p * m + e[i]
    <3>1. PICK x \in Int : x = f[b + n + i]
      BY <2>2
    <3>2. \E p \in Int : x = p * m + (x % m)
      BY IntegerDivision
    <3> QED BY <2>2, <3>1, <3>2
  <2>4. (q + p) * m = q * m + p * m /\ q * m \in Int /\ p * m \in Int /\ e[i] \in Int
        /\ q + p \in Int
    BY <2>2
  <2>5. whole(i) \in Int /\ part(i) \in Int /\ whole(0) \in Int
        /\ whole(i + 1) = whole(i) + f[b + n + i] /\ part(i + 1) = part(i) + e[i]
    <3> HIDE DEF whole, part
    <3>1. 0 \in 0 .. c /\ i \in 0 .. c
      OBVIOUS
    <3> QED BY <1>0, <3>1
  <2> HIDE DEF whole, part
  <2>6. whole(i + 1) = whole(0) + part(i + 1) + (q + p) * m
    BY <2>1, <2>3, <2>4, <2>5
  <2> QED BY <2>4, <2>6
<1> HIDE DEF good
<1>3. ASSUME bad # {} PROVE FALSE
  <2>0. bad \in SUBSET Nat
    OBVIOUS
  <2>1. PICK i \in bad : \A j \in bad : i <= j
    <3> HIDE DEF bad
    <3> QED BY <1>3, <2>0, LeastNatural
  <2>2. i # 0
    BY <1>1, <2>1
  <2>3. i - 1 \in 0 .. c - 1 /\ (i - 1) + 1 = i /\ i - 1 \in 0 .. c /\ ~(i <= i - 1)
    BY <2>1, <2>2
  <2>4. good(i - 1)
    BY <2>1, <2>3
  <2> QED BY <1>2, <2>1, <2>3, <2>4
<1>4. good(c)
  BY <1>3
<1>5. whole(c) = Sum(f, b .. b + n + c - 1) /\ part(c) = Sum(e, 0 .. c - 1)
      /\ whole(0) = Sum(f, b .. b + n - 1)
  <2>1. 0 + c - 1 = c - 1 /\ b + n + 0 - 1 = b + n - 1
    OBVIOUS
  <2> QED BY <2>1
<1> QED BY <1>4, <1>5 DEF good, Congruent

----------------------------------------------------------------------------
(* The results of the reduction accelerator. *)

\* What the generic lemmas on elements say of this accelerator's width.
LEMMA ReductionElements ==
  /\ Even(R!Modulus)
  /\ R!Elements = 0 .. R!Modulus - 1
  /\ \A e, signed : R!Meaning(e, signed) = MeaningIn(R!Modulus, e, signed)
  /\ \A e \in R!Elements : \A signed : R!Meaning(e, signed) \in Int
  /\ \A x \in Int : \A signed, saturate :
       /\ R!Convert(x, signed, saturate) \in R!Elements
       /\ R!IsElementFor(R!Convert(x, signed, saturate), x, signed, saturate)
<1>1. Even(R!Modulus)
  <2>1. Reduction.element_width \in 1 .. Vector.element_width + Reduction.accum_width
                                            + Gemm.accum_width
        /\ Vector.element_width + Reduction.accum_width + Gemm.accum_width \in Nat
    BY Widths, ParametersValid DEF R!ReductionParameters
  <2> QED BY <2>1, EvenPower, PowersOfTwo DEF R!Modulus
<1>2. R!Elements = 0 .. R!Modulus - 1
  BY DEF R!Elements
<1>3. \A e, signed : R!Meaning(e, signed) = MeaningIn(R!Modulus, e, signed)
  BY DEF R!Meaning, MeaningIn
<1>4. \A x, signed, saturate :
         R!Convert(x, signed, saturate) = ConvertIn(R!Modulus, x, signed, saturate)
  BY DEF R!Convert, ConvertIn, Clip, R!Maximum, R!Minimum
<1>5. ASSUME NEW e, NEW x, NEW signed, NEW saturate,
             FitsIn(R!Modulus, e, x, signed, saturate)
      PROVE  R!IsElementFor(e, x, signed, saturate)
  BY <1>2, <1>3, <1>5 DEF R!IsElementFor, R!Distance, FitsIn
<1>6. ASSUME NEW e \in R!Elements, NEW signed PROVE R!Meaning(e, signed) \in Int
  BY <1>1, <1>2, <1>3, MeaningRange
<1>7. ASSUME NEW x \in Int, NEW signed, NEW saturate
      PROVE  /\ R!Convert(x, signed, saturate) \in R!Elements
             /\ R!IsElementFor(R!Convert(x, signed, saturate), x, signed, saturate)
  BY <1>1, <1>2, <1>4, <1>5, ConvertFits
<1> QED BY <1>1, <1>2, <1>3, <1>6, <1>7

\* A factor of an even number of the kind the widths give.
LEMMA WidePower ==
  ASSUME NEW w \in Nat, \A n \in 1 .. w : 2 ^ n = 2 * 2 ^ (n - 1),
         NEW e \in Nat \ {0}, NEW a \in 1 .. w, a - e \in Nat
  PROVE  /\ Even(2 ^ a)
         /\ 2 ^ (a - 1) = 2 ^ a \div 2
         /\ 2 ^ (a - e) \in Nat \ {0}
         /\ 2 ^ a = 2 ^ (a - e) * 2 ^ e
<1>1. Even(2 ^ a)
  BY EvenPower
<1>2. 2 ^ (a - 1) = 2 ^ a \div 2
  <2>1. 2 ^ (a - 1) \in Nat
    <3>1. a - 1 \in 0 .. w
      OBVIOUS
    <3> QED BY <3>1, PowerNatural
  <2>2. 2 ^ a = 2 * 2 ^ (a - 1)
    OBVIOUS
  <2>3. \A h \in Nat : (2 * h) \div 2 = h
    OBVIOUS
  <2> QED BY <2>1, <2>2, <2>3
<1>3. e \in 0 .. w /\ a - e \in 0 .. w - e /\ a - e \in 0 .. w /\ e + (a - e) = a
  OBVIOUS
<1>4. 2 ^ (a - e) \in Nat \ {0} /\ 2 ^ e \in Nat \ {0}
  BY <1>3, PowerNatural
<1>5. 2 ^ (e + (a - e)) = 2 ^ e * 2 ^ (a - e)
  BY <1>3, PowerSum
<1>6. \A x, y \in Nat : x * y = y * x
  OBVIOUS
<1> QED BY <1>1, <1>2, <1>3, <1>4, <1>5, <1>6

\* The accumulator holds the sum of as many elements as a command may have.
LEMMA ReductionAccumulator ==
  /\ Even(2 ^ Reduction.accum_width)
  /\ Reduction.max_length \in Nat
  /\ \E p \in Nat : p >= Reduction.max_length
                    /\ 2 ^ Reduction.accum_width = p * R!Modulus
  /\ \A v \in Int : R!SignedAccum(v) = MeaningIn(2 ^ Reduction.accum_width, v, TRUE)
<1> DEFINE w == Vector.element_width + Reduction.accum_width + Gemm.accum_width
           e == Reduction.element_width
           a == Reduction.accum_width
<1>1. /\ w \in Nat /\ e \in Nat \ {0} /\ a \in 1 .. w /\ a - e \in Nat
      /\ Reduction.max_length \in Nat /\ 2 ^ (a - e) >= Reduction.max_length
  BY Widths, ParametersValid DEF R!ReductionParameters
<1>2. \A n \in 1 .. w : 2 ^ n = 2 * 2 ^ (n - 1)
  BY PowersOfTwo
<1> HIDE DEF w, e, a
<1>3. /\ Even(2 ^ a) /\ 2 ^ (a - 1) = 2 ^ a \div 2 /\ 2 ^ (a - e) \in Nat \ {0}
      /\ 2 ^ a = 2 ^ (a - e) * 2 ^ e
  BY <1>1, <1>2, WidePower
<1>4. R!Modulus = 2 ^ e
  BY DEF R!Modulus, e
<1>5. \E p \in Nat : p >= Reduction.max_length /\ 2 ^ a = p * R!Modulus
  BY <1>1, <1>3, <1>4
<1>6. ASSUME NEW v \in Int PROVE R!SignedAccum(v) = MeaningIn(2 ^ a, v, TRUE)
  <2>1. R!SignedAccum(v) = IF v < 2 ^ (a - 1) THEN v ELSE v - 2 ^ a
    BY DEF R!SignedAccum, a
  <2> QED BY <1>3, <2>1 DEF MeaningIn, Even
<1> QED BY <1>1, <1>3, <1>5, <1>6 DEF a

ReductionPosition == active.length - elements_remaining
ReductionLanes(remaining) == {lane \in R!Lanes : lane < remaining}

\* The numbers to reduce, by address, and the addresses of the first n.
ReductionTerms(act, bef) ==
  [a \in act.src0 .. act.src0 + act.length - 1 |-> R!Meaning(bef[a], act.signed)]
ReductionFirst(act, n) == act.src0 .. act.src0 + n - 1

ReductionOf(act, bef, element) ==
  IF act.opcode = "SUM"
    THEN R!IsElementFor(element, Sum(ReductionTerms(act, bef), ReductionFirst(act, act.length)),
                        act.signed, act.saturate)
    ELSE /\ \E a \in ReductionFirst(act, act.length) : element = bef[a]
         /\ \A a \in ReductionFirst(act, act.length) :
              R!Meaning(bef[a], act.signed) <= R!Meaning(element, act.signed)

\* The accumulator after the first n elements: their sum modulo its width, or
\* their maximum, the least element before the first.
ReductionPartial(act, bef, n, value) ==
  IF act.opcode = "SUM"
    THEN value = (Sum(ReductionTerms(act, bef), ReductionFirst(act, n))
                    % (2 ^ Reduction.accum_width))
    ELSE /\ value \in R!Elements
         /\ IF n = 0 THEN value = R!LeastElement(act.signed)
            ELSE \E a \in ReductionFirst(act, n) : value = bef[a]
         /\ \A a \in ReductionFirst(act, n) :
              R!Meaning(bef[a], act.signed) <= R!Meaning(value, act.signed)

ReductionTypes ==
  /\ memory \in [R!Space -> R!Elements] /\ before \in [R!Space -> R!Elements]
  /\ source_word \in [R!Lanes -> R!Elements] /\ result_word \in [R!Lanes -> R!Elements]
  /\ completed \in Nat

ReductionProgress ==
  /\ completed = 0 /\ memory = before
  /\ state \in ReductionReading =>
       ReductionPartial(active, before, ReductionPosition, accumulator)
  /\ state = "REDUCTION_ACCUMULATE" =>
       \A lane \in ReductionLanes(elements_remaining) :
         source_word[lane] = before[active.src0 + (ReductionPosition + lane)]
  /\ state \in {"REDUCTION_WRITE_REQUEST", "REDUCTION_WRITE_RESPONSE"} =>
       ReductionOf(active, before, result_word[0])

ReductionStored(mem, bef, act) ==
  /\ ReductionOf(act, bef, mem[act.dst])
  /\ \A a \in R!Space \ {act.dst} : mem[a] = bef[a]

ReductionAnswer ==
  /\ response.error = "ERR_NONE" =>
       /\ ReductionStored(memory, before, active)
       /\ response.result = memory[active.dst]
       /\ completed = active.length
  /\ response.error # "ERR_NONE" =>
       /\ completed = 0
       /\ \/ memory = before
          \/ response.error = "ERR_ADDRESS" /\ ReductionStored(memory, before, active)

ReductionData ==
  /\ ReductionTypes
  /\ state \in ReductionWorking => ReductionProgress
  /\ state = "REDUCTION_RESPONSE" => ReductionAnswer

\* The parameters of the build, as the leaves below need them.
LEMMA ReductionBuild ==
  /\ Reduction.elements_per_word \in Nat \ {0}
  /\ Reduction.spm.base \in Nat /\ Reduction.spm.size \in Nat
  /\ Reduction.max_length \in Nat \ {0}
BY ParametersValid DEF R!CoreParameters, R!ReductionParameters

\* The place in the source in terms of the elements already read.
LEMMA ReductionPlace ==
  ASSUME ReductionInv, state \in ReductionReading
  PROVE  /\ active.src0 \in Nat /\ active.length \in Nat /\ ReductionPosition \in Nat
         /\ ReductionPosition < active.length
         /\ elements_remaining \in Nat \ {0}
         /\ elements_remaining = active.length - ReductionPosition
         /\ source_address = active.src0 + ReductionPosition
         /\ R!Storage(active.length) \in Nat
         /\ ReductionPosition + Reduction.elements_per_word <= R!Storage(active.length)
<1> DEFINE W == Reduction.elements_per_word
<1>1. W \in Nat \ {0}
  BY ReductionBuild
<1>2. ReductionAdmitted
  BY DEF ReductionInv, ReductionWorking
<1>3. PICK words \in Nat : ReductionAt(words)
  BY DEF ReductionInv
<1>4. /\ words * W \in Nat /\ active.length \in Nat /\ words * W < active.length
      /\ elements_remaining = active.length - words * W
  BY <1>1, <1>2, <1>3 DEF ReductionAt, ReductionAdmitted
<1>5. ReductionPosition = words * W
  BY <1>4 DEF ReductionPosition
<1>6. R!Storage(active.length) \in Nat /\ words * W + W <= R!Storage(active.length)
  <2> HIDE DEF W
  <2>1. /\ ((active.length + W - 1) \div W) * W \in Nat
        /\ words * W + W <= ((active.length + W - 1) \div W) * W
    BY <1>1, <1>4, WordInStorage, StorageNatural
  <2> QED BY <2>1 DEF R!Storage, W
<1> HIDE DEF W
<1> QED BY <1>2, <1>3, <1>4, <1>5, <1>6 DEF ReductionAt, ReductionAdmitted, W

\* The words of the source and the destination lie in memory.
LEMMA ReductionSpace ==
  ASSUME ReductionInv
  PROVE  /\ state \in ReductionReading =>
              \A lane \in R!Lanes : active.src0 + (ReductionPosition + lane) \in R!Space
         /\ state \in ReductionWorking =>
              /\ active.dst \in R!Space /\ active.dst \in Nat /\ active.length \in Nat \ {0}
              /\ \A n \in 0 .. active.length - 1 : active.src0 + n \in R!Space
<1>1. ASSUME state \in ReductionReading, NEW lane \in R!Lanes
      PROVE  active.src0 + (ReductionPosition + lane) \in R!Space
  <2>1. lane \in Nat /\ lane < Reduction.elements_per_word
    BY ReductionBuild DEF R!Lanes
  <2>2. R!scratchpad_range_is_legal(active.src0, R!Storage(active.length))
    BY <1>1 DEF ReductionInv, ReductionWorking, ReductionAdmitted, R!OutOfBounds
  <2> QED BY <1>1, <2>1, <2>2, ReductionPlace, ReductionBuild
          DEF R!Space, R!scratchpad_range_is_legal
<1>2. ASSUME state \in ReductionWorking
      PROVE  /\ active.dst \in R!Space /\ active.dst \in Nat /\ active.length \in Nat \ {0}
             /\ \A n \in 0 .. active.length - 1 : active.src0 + n \in R!Space
  <2>1. /\ ReductionAdmitted
        /\ R!scratchpad_range_is_legal(active.dst, Reduction.elements_per_word)
        /\ R!scratchpad_range_is_legal(active.src0, R!Storage(active.length))
    BY <1>2 DEF ReductionInv, ReductionAdmitted, R!OutOfBounds
  <2>2. active.dst \in R!Space /\ active.dst \in Nat /\ active.length \in Nat \ {0}
    BY <2>1, ReductionBuild DEF ReductionAdmitted, R!Space, R!scratchpad_range_is_legal
  <2>3. R!Storage(active.length) \in Nat /\ active.length <= R!Storage(active.length)
    <3> DEFINE W == Reduction.elements_per_word
               s == (active.length + W - 1) \div W
    <3>1. W \in Nat \ {0} /\ active.length + W - 1 \in Nat
      BY <2>2, ReductionBuild
    <3>2. /\ s \in Nat /\ (active.length + W - 1) % W \in 0 .. W - 1
          /\ active.length + W - 1 = s * W + ((active.length + W - 1) % W)
      BY <3>1, Division
    <3> HIDE DEF s
    <3>3. s * W \in Nat
      BY <3>1, <3>2
    <3>4. R!Storage(active.length) = s * W
      BY DEF R!Storage, s
    <3> HIDE DEF W
    <3> QED BY <2>2, <3>1, <3>2, <3>3, <3>4
  <2>4. \A n \in 0 .. active.length - 1 : active.src0 + n \in R!Space
    BY <2>1, <2>2, <2>3, ReductionBuild
       DEF ReductionAdmitted, R!Space, R!scratchpad_range_is_legal
  <2> QED BY <2>2, <2>4
<1> QED BY <1>1, <1>2

\* A multiple of the modulus leaves the remainder alone.
LEMMA SameRemainder ==
  ASSUME NEW m \in Nat \ {0}, NEW x \in Int, NEW q \in Int
  PROVE  (x + q * m) % m = x % m
<1>1. x % m \in 0 .. m - 1
  BY IntegerDivision
<1>2. PICK p \in Int : x = p * m + (x % m)
  BY IntegerDivision
<1>3. PICK r \in 0 .. m - 1 : r = x % m
  BY <1>1
<1>4. (p + q) * m = p * m + q * m /\ p * m \in Int /\ q * m \in Int /\ p + q \in Int
  OBVIOUS
<1>5. x + q * m = (p + q) * m + r
  BY <1>2, <1>3, <1>4
<1>6. ((p + q) * m + r) % m = r
  BY <1>4, Remainder
<1> QED BY <1>3, <1>5, <1>6

\* Adding remainders and then taking the remainder.
LEMMA RemainderOfSum ==
  ASSUME NEW m \in Nat \ {0}, NEW x \in Int, NEW y \in Int, NEW q \in Int
  PROVE  ((x % m) + (y % m)) % m = (x + y + q * m) % m
<1>1. PICK i \in Int : x = i * m + (x % m)
  BY IntegerDivision
<1>2. PICK j \in Int : y = j * m + (y % m)
  BY IntegerDivision
<1>3. (i + j + q) * m = i * m + j * m + q * m
      /\ i * m \in Int /\ j * m \in Int /\ q * m \in Int /\ i + j + q \in Int
  OBVIOUS
<1>4. x % m \in Int /\ y % m \in Int
  BY IntegerDivision
<1>5. PICK s \in Int : s = (x % m) + (y % m)
  BY <1>4
<1>6. x + y + q * m = s + (i + j + q) * m
  BY <1>1, <1>2, <1>3, <1>4, <1>5
<1>7. PICK k \in Int : k = i + j + q
  BY <1>3
<1>8. (s + k * m) % m = s % m
  BY SameRemainder
<1> QED BY <1>5, <1>6, <1>7, <1>8

\* What one word adds.
LEMMA ReductionWord ==
  ASSUME ReductionInv, ReductionData, state = "REDUCTION_ACCUMULATE"
  PROVE  /\ R!current_word_elements \in 1 .. Reduction.elements_per_word
         /\ R!ValidLanes = 0 .. R!current_word_elements - 1
         /\ ReductionPosition + R!current_word_elements <= active.length
         /\ \A lane \in R!ValidLanes :
              /\ lane \in R!Lanes
              /\ active.src0 + ReductionPosition + lane
                   \in ReductionFirst(active, ReductionPosition + R!current_word_elements)
              /\ source_word[lane] = before[active.src0 + ReductionPosition + lane]
              /\ source_word[lane] \in R!Elements
<1> DEFINE c == R!current_word_elements
           W == Reduction.elements_per_word
<1>1. state \in ReductionReading
  BY DEF ReductionReading
<1>2. /\ active.src0 \in Nat /\ active.length \in Nat /\ ReductionPosition \in Nat
      /\ elements_remaining \in Nat \ {0}
      /\ elements_remaining = active.length - ReductionPosition
      /\ W \in Nat \ {0}
  BY <1>1, ReductionPlace, ReductionBuild
<1>3. ReductionProgress /\ ReductionTypes
  BY <1>1 DEF ReductionData, ReductionWorking
<1>4. c = IF elements_remaining <= W THEN elements_remaining ELSE W
  BY DEF R!current_word_elements, R!final_word
<1> HIDE DEF c
<1>5. c \in 1 .. W /\ c <= elements_remaining /\ ReductionPosition + c <= active.length
  BY <1>2, <1>4
<1>6. R!ValidLanes = 0 .. c - 1
  BY <1>2, <1>5 DEF R!ValidLanes, R!Lanes, c
<1>7. ASSUME NEW lane \in R!ValidLanes
      PROVE  /\ lane \in R!Lanes
             /\ active.src0 + ReductionPosition + lane
                  \in ReductionFirst(active, ReductionPosition + c)
             /\ source_word[lane] = before[active.src0 + ReductionPosition + lane]
             /\ source_word[lane] \in R!Elements
  <2>1. lane \in R!Lanes
    BY DEF R!ValidLanes
  <2>2. lane \in 0 .. c - 1 /\ lane < elements_remaining
    BY <1>2, <1>5, <1>6
  <2>3. active.src0 + ReductionPosition + lane = active.src0 + (ReductionPosition + lane)
    BY <1>2, <2>2
  <2>4. source_word[lane] = before[active.src0 + (ReductionPosition + lane)]
    BY <1>3, <2>1, <2>2 DEF ReductionProgress, ReductionLanes
  <2>5. active.src0 + ReductionPosition + lane \in ReductionFirst(active, ReductionPosition + c)
    BY <1>2, <1>5, <2>2 DEF ReductionFirst
  <2>6. source_word[lane] \in R!Elements
    BY <1>3, <2>1 DEF ReductionTypes
  <2> QED BY <2>1, <2>3, <2>4, <2>5, <2>6
<1> QED BY <1>5, <1>6, <1>7 DEF c

\* Every element of the source is an element, and its term an integer.
LEMMA ReductionSource ==
  ASSUME ReductionInv, ReductionTypes, state \in ReductionWorking
  PROVE  \A a \in ReductionFirst(active, active.length) :
           /\ before[a] \in R!Elements
           /\ ReductionTerms(active, before)[a]
                = MeaningIn(R!Modulus, before[a], active.signed)
           /\ ReductionTerms(active, before)[a] \in Int
<1> SUFFICES ASSUME NEW a \in ReductionFirst(active, active.length)
             PROVE  /\ before[a] \in R!Elements
                    /\ ReductionTerms(active, before)[a]
                         = MeaningIn(R!Modulus, before[a], active.signed)
                    /\ ReductionTerms(active, before)[a] \in Int
  OBVIOUS
<1>1. active.src0 \in Nat /\ active.length \in Nat
  BY ReductionBuild DEF ReductionInv, ReductionAdmitted
<1>2. a - active.src0 \in 0 .. active.length - 1 /\ a = active.src0 + (a - active.src0)
  BY <1>1 DEF ReductionFirst
<1>3. a \in R!Space
  BY <1>2, ReductionSpace
<1>4. before[a] \in R!Elements
  BY <1>3 DEF ReductionTypes
<1>5. ReductionTerms(active, before)[a] = R!Meaning(before[a], active.signed)
  BY DEF ReductionTerms, ReductionFirst
<1> QED BY <1>4, <1>5, ReductionElements

\* Accumulating a word adds its valid lanes to the partial sum.
LEMMA ReductionAdds ==
  ASSUME ReductionInv, ReductionData, state = "REDUCTION_ACCUMULATE", active.opcode = "SUM"
  PROVE  ReductionPartial(active, before, ReductionPosition + R!current_word_elements,
                          R!next_accumulator)
<1> DEFINE c == R!current_word_elements
           p == ReductionPosition
           M == 2 ^ Reduction.accum_width
           F == ReductionTerms(active, before)
           E == [lane \in 0 .. c - 1 |-> R!Meaning(source_word[lane], active.signed) % M]
           old == Sum(F, ReductionFirst(active, p))
           new == Sum(F, ReductionFirst(active, p + c))
           word == Sum(E, 0 .. c - 1)
<1>1. state \in ReductionReading /\ state \in ReductionWorking
  BY DEF ReductionReading, ReductionWorking
<1>2. ReductionProgress /\ ReductionTypes
  BY <1>1 DEF ReductionData
<1>3. active.src0 \in Nat /\ active.length \in Nat /\ p \in Nat /\ c \in Nat /\ p + c <= active.length
  BY <1>1, ReductionPlace, ReductionWord, ReductionBuild
<1>4. M \in Nat \ {0}
  BY ReductionAccumulator DEF Even
<1>5. R!next_accumulator = (accumulator + (word % M)) % M
  <2>1. R!word_sum = R!SumFunction(E) % M
    BY ReductionWord DEF R!word_sum, R!Accum
  <2>2. R!SumFunction(E) = word
    BY SumFunctions
  <2> QED BY <2>1, <2>2 DEF R!next_accumulator, R!Accum
<1>6. accumulator = old % M
  BY <1>1, <1>2 DEF ReductionProgress, ReductionPartial
<1>7. \A a \in ReductionFirst(active, active.length) : F[a] \in Int
  BY <1>1, <1>2, ReductionSource
<1>8. \A lane \in 0 .. c - 1 : E[lane] = F[active.src0 + p + lane] % M
  <2> SUFFICES ASSUME NEW lane \in 0 .. c - 1 PROVE E[lane] = F[active.src0 + p + lane] % M
    OBVIOUS
  <2>1. source_word[lane] = before[active.src0 + p + lane]
    BY ReductionWord
  <2>2. active.src0 + p + lane \in ReductionFirst(active, active.length)
    BY <1>3 DEF ReductionFirst
  <2>3. F[active.src0 + p + lane] = R!Meaning(before[active.src0 + p + lane], active.signed)
    BY <1>1, <1>2, <2>2, ReductionSource, ReductionElements
  <2> QED BY <2>1, <2>3
<1> HIDE DEF c, p, M, F, E
<1>9. Congruent(new, old + word, M)
  <2>1. PICK b \in Int : b = active.src0
    BY <1>3
  <2>2. Continues(E, F, b, p, c, M)
    BY <1>3, <1>7, <1>8, <2>1 DEF Continues, ReductionFirst
  <2>3. Congruent(Sum(F, b .. b + p + c - 1), Sum(F, b .. b + p - 1) + Sum(E, 0 .. c - 1), M)
    BY <1>3, <1>4, <2>1, <2>2, SumAppends
  <2>4. ReductionFirst(active, p + c) = b .. b + p + c - 1
        /\ ReductionFirst(active, p) = b .. b + p - 1
    BY <1>3, <2>1 DEF ReductionFirst
  <2> QED BY <2>3, <2>4
<1>10. old \in Int /\ new \in Int /\ word \in Int
  <2>1. ASSUME NEW n \in 0 .. p + c PROVE Sum(F, ReductionFirst(active, n)) \in Int
    <3>1. IsFiniteSet(ReductionFirst(active, n))
      <4>1. active.src0 \in Int /\ active.src0 + n - 1 \in Int
        BY <1>3
      <4> QED BY <4>1, FS_Interval DEF ReductionFirst
    <3>2. \A x \in ReductionFirst(active, n) : F[x] \in Int
      BY <1>3, <1>7 DEF ReductionFirst
    <3> QED BY <3>1, <3>2, SumInteger
  <2>2. \A x \in 0 .. c - 1 : E[x] \in Int
    <3>1. \A y \in Int : y % M \in Int
      BY <1>4, IntegerDivision
    <3>2. ASSUME NEW x \in 0 .. c - 1 PROVE F[active.src0 + p + x] \in Int
      <4>1. active.src0 + p + x \in ReductionFirst(active, active.length)
        BY <1>3 DEF ReductionFirst
      <4> QED BY <1>7, <4>1
    <3> QED BY <1>8, <3>1, <3>2
  <2>3. IsFiniteSet(0 .. c - 1)
    BY <1>3, FS_Interval
  <2>4. word \in Int
    BY <2>2, <2>3, SumInteger
  <2>5. p \in 0 .. p + c /\ p + c \in 0 .. p + c
    BY <1>3
  <2> QED BY <2>1, <2>4, <2>5
<1> HIDE DEF old, new, word
<1>11. R!next_accumulator = new % M
  <2>1. PICK q \in Int : new = old + word + q * M
    BY <1>9 DEF Congruent
  <2>2. ((old % M) + (word % M)) % M = (old + word + q * M) % M
    BY <1>4, <1>10, RemainderOfSum
  <2> QED BY <1>5, <1>6, <2>1, <2>2
<1> QED BY <1>11 DEF ReductionPartial, new, F, M, c, p

\* Elements are ordered by what they stand for.
LEMMA GreatestExists ==
  ASSUME NEW m, Even(m), NEW S, S # {}, S \subseteq 0 .. m - 1, NEW signed
  PROVE  \E e \in S : \A f \in S : ~(MeaningIn(m, f, signed) > MeaningIn(m, e, signed))
<1> DEFINE below == {n \in Nat : \E e \in S : n = m - MeaningIn(m, e, signed)}
<1>1. \A e \in S : m - MeaningIn(m, e, signed) \in Nat /\ MeaningIn(m, e, signed) \in Int
  BY MeaningRange DEF Even
<1>2. PICK n \in below : \A i \in below : n <= i
  <2>1. below # {} /\ below \in SUBSET Nat
    BY <1>1
  <2> HIDE DEF below
  <2> QED BY <2>1, LeastNatural
<1>3. PICK e \in S : n = m - MeaningIn(m, e, signed)
  BY <1>2
<1>4. ASSUME NEW f \in S PROVE ~(MeaningIn(m, f, signed) > MeaningIn(m, e, signed))
  <2>1. m - MeaningIn(m, f, signed) \in below
    BY <1>1
  <2>2. m - MeaningIn(m, e, signed) <= m - MeaningIn(m, f, signed)
    BY <1>2, <1>3, <2>1
  <2>3. MeaningIn(m, f, signed) \in Int /\ MeaningIn(m, e, signed) \in Int /\ m \in Int
    BY <1>1 DEF Even
  <2> QED BY <2>2, <2>3
<1> QED BY <1>4

\* Two elements with the same meaning are the same.
LEMMA MeaningInjective ==
  ASSUME NEW m, Even(m), NEW e \in 0 .. m - 1, NEW f \in 0 .. m - 1, NEW signed,
         MeaningIn(m, e, signed) = MeaningIn(m, f, signed)
  PROVE  e = f
BY DEF MeaningIn, Even

\* The least element.
LEMMA ReductionLeast ==
  ASSUME NEW signed
  PROVE  /\ R!LeastElement(signed) \in R!Elements
         /\ \A e \in R!Elements :
              R!Meaning(R!LeastElement(signed), signed) <= R!Meaning(e, signed)
<1> DEFINE m == R!Modulus
<1>1. Even(m) /\ R!Elements = 0 .. m - 1
  BY ReductionElements
<1>2. \A e : R!Meaning(e, signed) = MeaningIn(m, e, signed)
  BY ReductionElements
<1>3. R!LeastElement(signed) = IF signed THEN m \div 2 ELSE 0
  BY DEF R!LeastElement
<1> HIDE DEF m
<1>4. R!LeastElement(signed) \in R!Elements
  BY <1>1, <1>3 DEF Even
<1>5. MeaningIn(m, R!LeastElement(signed), signed) = IF signed THEN -(m \div 2) ELSE 0
  BY <1>1, <1>3 DEF Even, MeaningIn
<1>6. ASSUME NEW e \in R!Elements
      PROVE  R!Meaning(R!LeastElement(signed), signed) <= R!Meaning(e, signed)
  <2>1. /\ MeaningIn(m, e, signed) \in Int
        /\ signed => MeaningIn(m, e, signed) \in -(m \div 2) .. m \div 2 - 1
        /\ ~signed => MeaningIn(m, e, signed) \in 0 .. m - 1
    BY <1>1, <1>6, MeaningRange
  <2>2. (IF signed THEN -(m \div 2) ELSE 0) <= MeaningIn(m, e, signed)
    BY <1>1, <2>1 DEF Even
  <2> QED BY <1>2, <1>5, <2>2
<1> QED BY <1>4, <1>6

\* Accumulating a word takes its valid lanes into the partial maximum.
LEMMA ReductionMaximises ==
  ASSUME ReductionInv, ReductionData, state = "REDUCTION_ACCUMULATE", active.opcode = "MAX"
  PROVE  ReductionPartial(active, before, ReductionPosition + R!current_word_elements,
                          R!next_accumulator)
<1> DEFINE c == R!current_word_elements
           p == ReductionPosition
           W == Reduction.elements_per_word
           Value(e) == R!Meaning(e, active.signed)
           least == R!LeastElement(active.signed)
           leaves == {IF lane \in R!ValidLanes THEN source_word[lane] ELSE least :
                        lane \in R!Lanes}
           greatest == R!word_maximum
<1>1. state \in ReductionReading /\ state \in ReductionWorking
  BY DEF ReductionReading, ReductionWorking
<1>2. ReductionProgress /\ ReductionTypes
  BY <1>1 DEF ReductionData
<1>3. /\ active.src0 \in Nat /\ p \in Nat /\ c \in Nat \ {0}
      /\ p + c <= active.length /\ active.length \in Nat
  BY <1>1, ReductionPlace, ReductionWord, ReductionBuild
<1>4. \A e \in R!Elements : Value(e) \in Int
  BY ReductionElements
<1>5. least \in R!Elements /\ \A e \in R!Elements : Value(least) <= Value(e)
  BY ReductionLeast
<1>6. /\ accumulator \in R!Elements
      /\ IF p = 0 THEN accumulator = least
         ELSE \E a \in ReductionFirst(active, p) : accumulator = before[a]
      /\ \A a \in ReductionFirst(active, p) : Value(before[a]) <= Value(accumulator)
  BY <1>1, <1>2 DEF ReductionProgress, ReductionPartial
<1>7. leaves \subseteq R!Elements /\ leaves # {}
  <2>1. \A lane \in R!ValidLanes : source_word[lane] \in R!Elements
    BY ReductionWord
  <2>2. 0 \in R!Lanes
    BY ReductionBuild DEF R!Lanes
  <2> HIDE DEF least
  <2> QED BY <1>5, <2>1, <2>2
<1>8. greatest \in leaves /\ \A f \in leaves : Value(f) <= Value(greatest)
  <2>1. greatest = CHOOSE e \in leaves : \A f \in leaves : ~(Value(f) > Value(e))
    BY DEF R!word_maximum, R!Greater
  <2> HIDE DEF leaves, greatest
  <2>2. \E e \in leaves : \A f \in leaves : ~(Value(f) > Value(e))
    BY <1>7, GreatestExists, ReductionElements
  <2>3. greatest \in leaves /\ \A f \in leaves : ~(Value(f) > Value(greatest))
    BY <2>1, <2>2
  <2> QED BY <1>4, <1>7, <2>3
<1>9. greatest = least \/ \E lane \in R!ValidLanes : greatest = source_word[lane]
  BY <1>8
<1>10. greatest \in R!Elements
  BY <1>7, <1>8
<1>11. R!next_accumulator = IF Value(greatest) > Value(accumulator) THEN greatest
                            ELSE accumulator
  <2>1. accumulator % R!Modulus = accumulator
    <3>1. /\ R!Modulus \in Nat \ {0} /\ accumulator \in 0 .. R!Modulus - 1
          /\ R!Elements = 0 .. R!Modulus - 1
      BY <1>6, ReductionElements DEF Even
    <3>2. (0 * R!Modulus + accumulator) % R!Modulus = accumulator
      BY <3>1, Remainder
    <3>3. 0 * R!Modulus + accumulator = accumulator
      BY <3>1
    <3> QED BY <3>2, <3>3
  <2> QED BY <2>1 DEF R!next_accumulator, R!Greater
<1> DEFINE next == R!next_accumulator
<1>12. \A lane \in R!ValidLanes : /\ source_word[lane] \in leaves
                                  /\ source_word[lane] = before[active.src0 + p + lane]
  BY ReductionWord
<1>13. R!ValidLanes = 0 .. c - 1
  BY ReductionWord
<1> HIDE DEF c, p, Value, least, leaves, greatest, next
<1>14. next \in R!Elements /\ Value(accumulator) <= Value(next) /\ Value(greatest) <= Value(next)
  BY <1>4, <1>6, <1>10, <1>11 DEF next
<1>15. ASSUME NEW a \in ReductionFirst(active, p + c) PROVE Value(before[a]) <= Value(next)
  <2>1. before[a] \in R!Elements
    <3>1. a \in ReductionFirst(active, active.length)
      BY <1>3 DEF ReductionFirst
    <3> QED BY <1>1, <1>2, <3>1, ReductionSource
  <2>2. CASE a \in ReductionFirst(active, p)
    <3>1. Value(before[a]) <= Value(accumulator)
      BY <1>6, <2>2
    <3> QED BY <1>4, <1>6, <1>14, <2>1, <3>1
  <2>3. CASE a \notin ReductionFirst(active, p)
    <3>1. PICK lane \in 0 .. c - 1 : a = active.src0 + p + lane
      <4>1. a - (active.src0 + p) \in 0 .. c - 1 /\ a = active.src0 + p + (a - (active.src0 + p))
        BY <1>3, <2>3 DEF ReductionFirst
      <4> QED BY <4>1
    <3>2. Value(before[a]) <= Value(greatest)
      BY <1>8, <1>12, <1>13, <3>1
    <3> QED BY <1>4, <1>10, <1>14, <2>1, <3>2
  <2> QED BY <2>2, <2>3
\* The start value survives only if it is an element of the source.
<1>16. \E a \in ReductionFirst(active, p + c) : next = before[a]
  <2>1. CASE \E lane \in R!ValidLanes : next = source_word[lane]
    <3>1. PICK lane \in 0 .. c - 1 : next = before[active.src0 + p + lane]
      BY <1>12, <1>13, <2>1
    <3>2. active.src0 + p + lane \in ReductionFirst(active, p + c)
      BY <1>3 DEF ReductionFirst
    <3> QED BY <3>1, <3>2
  <2>2. CASE ~\E lane \in R!ValidLanes : next = source_word[lane]
    <3>1. next = accumulator
      <4>1. ASSUME next # accumulator PROVE FALSE
        <5>1. next = greatest /\ Value(greatest) > Value(accumulator)
          BY <1>11, <4>1 DEF next
        <5>2. greatest = least
          BY <1>9, <2>2, <5>1
        <5>3. Value(least) <= Value(accumulator)
          BY <1>5, <1>6
        <5> QED BY <1>4, <1>6, <1>10, <5>1, <5>2, <5>3
      <4> QED BY <4>1
    <3>2. CASE p = 0
      <4>1. 0 \in R!ValidLanes
        BY <1>3, <1>13
      <4>2. source_word[0] \in R!Elements
        BY <4>1, ReductionWord
      <4>3. Value(source_word[0]) <= Value(next)
        <5>1. Value(source_word[0]) <= Value(greatest)
          BY <1>8, <1>12, <4>1
        <5> QED BY <1>4, <1>10, <1>14, <4>2, <5>1
      <4>4. Value(next) <= Value(source_word[0])
        BY <1>5, <1>6, <3>1, <3>2, <4>2
      <4>5. Value(source_word[0]) = Value(next)
        BY <1>4, <1>14, <4>2, <4>3, <4>4
      <4>6. source_word[0] = next
        <5>1. /\ Even(R!Modulus) /\ source_word[0] \in 0 .. R!Modulus - 1
              /\ next \in 0 .. R!Modulus - 1
              /\ MeaningIn(R!Modulus, source_word[0], active.signed)
                   = MeaningIn(R!Modulus, next, active.signed)
          BY <1>14, <4>2, <4>5, ReductionElements DEF Value
        <5> QED BY <5>1, MeaningInjective
      <4> QED BY <2>2, <4>1, <4>6
    <3>3. CASE p # 0
      <4>1. PICK a \in ReductionFirst(active, p) : accumulator = before[a]
        BY <1>6, <3>3
      <4>2. a \in ReductionFirst(active, p + c)
        BY <1>3 DEF ReductionFirst
      <4> QED BY <3>1, <4>1, <4>2
    <3> QED BY <3>2, <3>3
  <2> QED BY <2>1, <2>2
<1>17. p + c # 0
  BY <1>3
<1> QED BY <1>14, <1>15, <1>16, <1>17 DEF ReductionPartial, next, p, c, Value

\* The sum of the whole source fits the accumulator, so that conversion sees
\* the exact sum.
LEMMA ReductionSum ==
  ASSUME ReductionInv, ReductionTypes, state \in ReductionWorking,
         NEW value, value = (Sum(ReductionTerms(active, before),
                                 ReductionFirst(active, active.length))
                               % (2 ^ Reduction.accum_width))
  PROVE  /\ R!convert_sum(value, active) \in R!Elements
         /\ R!IsElementFor(R!convert_sum(value, active),
                           Sum(ReductionTerms(active, before),
                               ReductionFirst(active, active.length)),
                           active.signed, active.saturate)
<1> DEFINE m == R!Modulus
           M == 2 ^ Reduction.accum_width
           F == ReductionTerms(active, before)
           L == active.length
           sum == Sum(F, ReductionFirst(active, L))
           lo == IF active.signed THEN -(m \div 2) ELSE 0
           hi == IF active.signed THEN m \div 2 - 1 ELSE m - 1
<1>1. active.src0 \in Nat /\ L \in 1 .. Reduction.max_length /\ L \in Nat \ {0}
  BY ReductionBuild DEF ReductionInv, ReductionAdmitted
<1>2. Even(m) /\ R!Elements = 0 .. m - 1 /\ Even(M)
  BY ReductionElements, ReductionAccumulator
<1>3. PICK k \in Nat : k >= Reduction.max_length /\ M = k * m
  BY ReductionAccumulator
<1>4. \A a \in ReductionFirst(active, L) : F[a] \in lo .. hi
  <2> SUFFICES ASSUME NEW a \in ReductionFirst(active, L) PROVE F[a] \in lo .. hi
    OBVIOUS
  <2>1. before[a] \in 0 .. m - 1 /\ F[a] = MeaningIn(m, before[a], active.signed)
    BY <1>2, ReductionSource
  <2>2. /\ F[a] \in Int
        /\ active.signed => F[a] \in -(m \div 2) .. m \div 2 - 1
        /\ ~active.signed => F[a] \in 0 .. m - 1
    <3> HIDE DEF F, m
    <3>1. PICK e \in 0 .. m - 1 : e = before[a]
      BY <2>1
    <3> QED BY <1>2, <2>1, <3>1, MeaningRange
  <2> HIDE DEF F, m
  <2> QED BY <2>2
<1> HIDE DEF m, M, F
<1>5. lo \in Int /\ hi \in Int
  BY <1>2 DEF Even
<1>6. sum \in L * lo .. L * hi
  <2>1. PICK b \in Int : b = active.src0
    BY <1>1
  <2>2. ReductionFirst(active, L) = b .. b + L - 1
    BY <2>1 DEF ReductionFirst
  <2>3. \A x \in b .. b + L - 1 : F[x] \in lo .. hi
    BY <1>4, <2>2
  <2> HIDE DEF lo, hi
  <2>4. Sum(F, b .. b + L - 1) \in L * lo .. L * hi
    BY <1>1, <1>5, <2>1, <2>3, SumBounded
  <2> QED BY <2>2, <2>4
<1> HIDE DEF sum
<1>7. sum \in Int
  BY <1>1, <1>5, <1>6
<1>8. /\ active.signed => sum \in -(M \div 2) .. M \div 2 - 1
      /\ ~active.signed => sum \in 0 .. M - 1
  <2>1. PICK h \in Nat \ {0} : h = m \div 2 /\ m = 2 * h
    BY <1>2 DEF Even
  <2>2. PICK H \in Nat \ {0} : H = M \div 2 /\ M = 2 * H
    BY <1>2 DEF Even
  <2>3. H = k * h
    <3>1. k * m = 2 * (k * h) /\ k * h \in Nat
      BY <2>1
    <3> QED BY <1>3, <2>2, <3>1
  <2>4. L * h <= k * h /\ L * m <= k * m
    <3>1. L <= k
      BY <1>1, <1>3, ReductionBuild
    <3> QED BY <1>1, <2>1, <3>1, ProductGrows
  <2>5. CASE active.signed
    <3>1. L * (-h) = -(L * h) /\ L * (h - 1) = L * h - L /\ L * h \in Nat
      BY <1>1, <2>1
    <3>2. sum >= L * (-h) /\ sum <= L * (h - 1)
      BY <1>1, <1>5, <1>6, <2>1, <2>5
    <3> QED BY <1>1, <1>7, <2>2, <2>3, <2>4, <2>5, <3>1, <3>2
  <2>6. CASE ~active.signed
    <3>1. L * 0 = 0 /\ L * (m - 1) = L * m - L /\ L * m \in Nat
      BY <1>1, <2>1
    <3>2. sum >= L * 0 /\ sum <= L * (m - 1)
      BY <1>1, <1>5, <1>6, <2>1, <2>6
    <3> QED BY <1>1, <1>3, <1>7, <2>2, <2>4, <2>6, <3>1, <3>2
  <2> QED BY <2>5, <2>6
<1>9. value = sum % M
  BY DEF sum, F, M
<1>10. MeaningIn(M, value, active.signed) = sum
  BY <1>2, <1>7, <1>8, <1>9, RemainderMeans
<1>11. (IF active.signed THEN R!SignedAccum(value) ELSE value) = sum
  <2>1. value \in Int
    BY <1>2, <1>7, <1>9, IntegerDivision DEF Even
  <2>2. R!SignedAccum(value) = MeaningIn(M, value, TRUE)
    BY <2>1, ReductionAccumulator DEF M
  <2>3. CASE active.signed
    BY <1>10, <2>2, <2>3 DEF MeaningIn
  <2>4. CASE ~active.signed
    BY <1>10, <2>4 DEF MeaningIn
  <2> QED BY <2>3, <2>4
<1>12. R!convert_sum(value, active) = R!Convert(sum, active.signed, active.saturate)
  BY <1>11 DEF R!convert_sum
<1>13. /\ R!convert_sum(value, active) \in R!Elements
       /\ R!IsElementFor(R!convert_sum(value, active), sum, active.signed, active.saturate)
  BY <1>7, <1>12, ReductionElements
<1> QED BY <1>13 DEF sum, F

\* Accumulating a word keeps the partial result exact.
LEMMA ReductionAccumulateData ==
  ASSUME ReductionInv, ReductionData, R!Accumulate
  PROVE  ReductionData'
<1> DEFINE p == ReductionPosition
           c == R!current_word_elements
<1>1. /\ state = "REDUCTION_ACCUMULATE"
      /\ state' = IF R!final_word THEN "REDUCTION_WRITE_REQUEST" ELSE "REDUCTION_READ_REQUEST"
      /\ completed' = completed + 0
      /\ accumulator' = R!next_accumulator
      /\ UNCHANGED <<active, response, before, memory, source_word>>
  BY DEF R!Accumulate, R!Handshake, R!Proceed
<1>2. state \in ReductionReading /\ state \in ReductionWorking
  BY <1>1 DEF ReductionReading, ReductionWorking
<1>3. ReductionProgress /\ ReductionTypes
  BY <1>2 DEF ReductionData
<1>4. completed' = 0 /\ memory' = before'
  BY <1>1, <1>3 DEF ReductionProgress
<1>5. ReductionPartial(active, before, p + c, accumulator')
  BY <1>1, <1>2, ReductionAdds, ReductionMaximises
     DEF ReductionInv, ReductionAdmitted, R!ReductionOpcodes
<1>6. /\ p \in Nat /\ active.length \in Nat /\ elements_remaining \in Nat
      /\ elements_remaining = active.length - p
      /\ Reduction.elements_per_word \in Nat \ {0}
  BY <1>2, ReductionPlace, ReductionBuild
<1>7. CASE R!final_word
  <2>1. p + c = active.length
    BY <1>6, <1>7 DEF R!current_word_elements
  <2>2. result_word' = [R!ZeroWord EXCEPT ![0] = R!reduced_element]
    BY <1>7 DEF R!Accumulate
  <2>3. active.length \in Nat \ {0}
    BY <1>2, ReductionSpace
  <2>4. R!reduced_element \in R!Elements /\ ReductionOf(active, before, R!reduced_element)
    <3>1. CASE active.opcode = "SUM"
      BY <1>1, <1>2, <1>3, <1>5, <2>1, <3>1, ReductionSum
         DEF ReductionPartial, ReductionOf, R!reduced_element
    <3>2. CASE active.opcode # "SUM"
      <4>1. R!next_accumulator \in R!Elements
        BY <1>1, <1>5, <3>2 DEF ReductionPartial
      <4>2. R!next_accumulator % R!Modulus = R!next_accumulator
        <5>1. /\ R!Modulus \in Nat \ {0} /\ R!next_accumulator \in 0 .. R!Modulus - 1
          BY <4>1, ReductionElements DEF Even
        <5>2. (0 * R!Modulus + R!next_accumulator) % R!Modulus = R!next_accumulator
          BY <5>1, Remainder
        <5>3. 0 * R!Modulus + R!next_accumulator = R!next_accumulator
          BY <5>1
        <5> QED BY <5>2, <5>3
      <4>3. R!reduced_element = R!next_accumulator
        BY <3>2, <4>2 DEF R!reduced_element
      <4> QED BY <1>1, <1>5, <2>1, <2>3, <3>2, <4>1, <4>3 DEF ReductionPartial, ReductionOf
    <3> QED BY <3>1, <3>2
  <2>5. 0 \in R!Lanes /\ 0 \in R!Elements
    BY <1>6, ReductionElements DEF R!Lanes, Even
  <2>6. result_word' \in [R!Lanes -> R!Elements] /\ result_word'[0] = R!reduced_element
    BY <2>2, <2>4, <2>5 DEF R!ZeroWord
  <2>7. ReductionTypes'
    BY <1>1, <1>3, <1>4, <2>6 DEF ReductionTypes
  <2>8. state' = "REDUCTION_WRITE_REQUEST"
    BY <1>1, <1>7
  <2>9. ReductionProgress'
    BY <1>1, <1>4, <2>4, <2>6, <2>8 DEF ReductionProgress, ReductionReading
  <2> QED BY <2>7, <2>8, <2>9 DEF ReductionData
<1>8. CASE ~R!final_word
  <2>1. /\ state' = "REDUCTION_READ_REQUEST" /\ result_word' = result_word
        /\ elements_remaining' = elements_remaining - Reduction.elements_per_word
    BY <1>1, <1>8 DEF R!Accumulate
  <2>2. ReductionPosition' = p + c
    BY <1>1, <1>6, <1>8, <2>1 DEF ReductionPosition, R!current_word_elements
  <2>3. ReductionTypes'
    BY <1>1, <1>3, <1>4, <2>1 DEF ReductionTypes
  <2>4. ReductionProgress'
    BY <1>1, <1>4, <1>5, <2>1, <2>2 DEF ReductionProgress, ReductionReading
  <2> QED BY <2>1, <2>3, <2>4 DEF ReductionData
<1> QED BY <1>7, <1>8

\* A word read is the word of the memory the command started from.
LEMMA ReductionReadData ==
  ASSUME ReductionInv, ReductionData, R!WordRead
  PROVE  ReductionData'
<1>1. /\ state = "REDUCTION_READ_RESPONSE" /\ state' = "REDUCTION_ACCUMULATE"
      /\ completed' = completed + 0 /\ source_word' = R!Word(source_address)
      /\ UNCHANGED <<active, response, before, memory, elements_remaining, accumulator,
                     result_word>>
  BY DEF R!WordRead, R!Handshake, R!Proceed, R!addressVars
<1>2. state \in ReductionReading /\ state \in ReductionWorking
  BY <1>1 DEF ReductionReading, ReductionWorking
<1>3. ReductionProgress /\ ReductionTypes
  BY <1>2 DEF ReductionData
<1>4. ReductionPosition' = ReductionPosition
  BY <1>1 DEF ReductionPosition
<1>5. ASSUME NEW lane \in R!Lanes
      PROVE  source_word'[lane] = before[active.src0 + (ReductionPosition + lane)]
             /\ source_word'[lane] \in R!Elements
  <2>1. active.src0 + (ReductionPosition + lane) \in R!Space
    BY <1>2, ReductionSpace
  <2>2. source_address + lane = active.src0 + (ReductionPosition + lane)
    BY <1>2, ReductionPlace, ReductionBuild DEF R!Lanes
  <2>3. source_word'[lane] = memory[source_address + lane]
    BY <1>1 DEF R!Word
  <2> QED BY <1>3, <2>1, <2>2, <2>3 DEF ReductionProgress, ReductionTypes
<1>6. source_word' \in [R!Lanes -> R!Elements]
  <2>1. source_word' = [lane \in R!Lanes |-> memory[source_address + lane]]
    BY <1>1 DEF R!Word
  <2> QED BY <1>5, <2>1
<1>7. ReductionTypes'
  BY <1>1, <1>3, <1>6 DEF ReductionTypes
<1>8. ReductionProgress'
  BY <1>1, <1>2, <1>3, <1>4, <1>5 DEF ReductionProgress, ReductionTypes, ReductionLanes,
     ReductionReading
<1> QED BY <1>1, <1>7, <1>8 DEF ReductionData

\* The write stores the result and changes nothing else.
LEMMA ReductionStores ==
  ASSUME ReductionInv, ReductionData, state = "REDUCTION_WRITE_RESPONSE"
  PROVE  /\ R!Written \in [R!Space -> R!Elements]
         /\ R!Written[active.dst] = result_word[0]
         /\ ReductionStored(R!Written, before, active)
<1>1. state \in ReductionWorking
  BY DEF ReductionWorking
<1>2. ReductionProgress /\ ReductionTypes
  BY <1>1 DEF ReductionData
<1>3. destination_address = active.dst /\ active.dst \in R!Space /\ active.dst \in Nat
  BY <1>1, ReductionSpace DEF ReductionInv
<1>4. 0 \in R!Lanes
  BY ReductionBuild DEF R!Lanes
<1>5. \A a \in R!Space : a \in Int
  BY ReductionBuild DEF R!Space
<1>6. \A a \in R!Space : R!Written[a] = IF a = active.dst THEN result_word[0] ELSE memory[a]
  BY <1>3, <1>5 DEF R!Written, R!Store
<1>7. R!Written \in [R!Space -> R!Elements]
  <2>1. R!Written = [a \in R!Space |-> R!Written[a]]
    BY DEF R!Written, R!Store
  <2>2. \A a \in R!Space : R!Written[a] \in R!Elements
    BY <1>2, <1>4, <1>6 DEF ReductionTypes
  <2> HIDE DEF R!Written
  <2> QED BY <2>1, <2>2
<1>8. R!Written[active.dst] = result_word[0]
  BY <1>3, <1>6
<1>9. ReductionOf(active, before, result_word[0]) /\ memory = before
  BY <1>2 DEF ReductionProgress
<1>10. \A a \in R!Space \ {active.dst} : R!Written[a] = before[a]
  BY <1>6, <1>9
<1> QED BY <1>7, <1>8, <1>9, <1>10 DEF ReductionStored

\* The one write stores the converted result.
LEMMA ReductionWrittenData ==
  ASSUME ReductionInv, ReductionData, R!ResultWritten
  PROVE  ReductionData'
<1>1. /\ state = "REDUCTION_WRITE_RESPONSE" /\ state' = "REDUCTION_RESPONSE"
      /\ memory' = R!Written /\ completed' = completed + active.length
      /\ response' = [error |-> "ERR_NONE", result |-> result_word[0]]
      /\ UNCHANGED <<active, before, source_word, result_word>>
  BY DEF R!ResultWritten, R!Finish, R!reductionVars
<1>2. state \in ReductionWorking /\ state' \notin ReductionWorking
  BY <1>1 DEF ReductionWorking, ReductionReading
<1>3. ReductionProgress /\ ReductionTypes
  BY <1>2 DEF ReductionData
<1>4. completed' = active.length /\ active.length \in Nat
  BY <1>1, <1>2, <1>3, ReductionSpace DEF ReductionProgress
<1>5. ReductionTypes'
  BY <1>1, <1>3, <1>4, ReductionStores DEF ReductionTypes
<1>6. ReductionStored(memory', before', active') /\ memory'[active.dst] = result_word[0]
  BY <1>1, ReductionStores
<1>7. ReductionAnswer'
  BY <1>1, <1>4, <1>6 DEF ReductionAnswer
<1> QED BY <1>1, <1>2, <1>5, <1>7 DEF ReductionData

\* A failed read leaves memory alone; a failed write may have stored.
LEMMA ReductionFailsData ==
  ASSUME ReductionInv, ReductionData, R!AccessFails
  PROVE  ReductionData'
<1>1. /\ state' = "REDUCTION_RESPONSE" /\ completed' = completed + 0
      /\ response' = [error |-> "ERR_ADDRESS", result |-> 0]
      /\ state \in {"REDUCTION_READ_RESPONSE", "REDUCTION_WRITE_RESPONSE"}
      /\ UNCHANGED <<active, before, source_word, result_word>>
      /\ memory' = memory \/ (state = "REDUCTION_WRITE_RESPONSE" /\ memory' = R!Written)
  BY DEF R!AccessFails, R!MemoryError, R!Finish, R!reductionVars
<1>2. state \in ReductionWorking /\ state' \notin ReductionWorking
  BY <1>1 DEF ReductionWorking, ReductionReading
<1>3. ReductionProgress /\ ReductionTypes
  BY <1>2 DEF ReductionData
<1>4. completed' = 0
  BY <1>1, <1>3 DEF ReductionProgress
<1>5. ReductionTypes'
  BY <1>1, <1>3, <1>4, ReductionStores DEF ReductionTypes
<1>6. memory' = before' \/ ReductionStored(memory', before', active')
  BY <1>1, <1>3, ReductionStores DEF ReductionProgress
<1>7. ReductionAnswer'
  BY <1>1, <1>4, <1>6 DEF ReductionAnswer
<1> QED BY <1>1, <1>2, <1>5, <1>7 DEF ReductionData

\* An accepted or refused command has stored nothing yet.
LEMMA ReductionAcceptedData ==
  ASSUME accepted \in Nat, ReductionData, NEW command \in R!Offered, R!AcceptCommand(command)
  PROVE  ReductionData'
<1>1. /\ active' = command /\ before' = memory /\ memory' = memory /\ completed' = 0
      /\ UNCHANGED <<source_word, result_word>>
  BY DEF R!AcceptCommand, R!Accept
<1>2. ReductionTypes'
  BY <1>1 DEF ReductionData, ReductionTypes
<1>3. CASE R!command_validation_error(command) # "ERR_NONE"
  <2>1. /\ state' = "REDUCTION_RESPONSE"
        /\ response' = [error |-> R!command_validation_error(command), result |-> 0]
    BY <1>3 DEF R!AcceptCommand, R!Accept
  <2>2. ReductionAnswer'
    BY <1>1, <1>3, <2>1 DEF ReductionAnswer
  <2> QED BY <1>2, <2>1, <2>2 DEF ReductionData, ReductionWorking, ReductionReading
<1>4. CASE R!command_validation_error(command) = "ERR_NONE"
  <2>1. /\ state' = "REDUCTION_READ_REQUEST"
        /\ elements_remaining' = command.length
        /\ accumulator' = IF command.opcode = "MAX" /\ command.signed
                            THEN R!Modulus \div 2 ELSE 0
    BY <1>4 DEF R!AcceptCommand, R!Accept
  <2>2. /\ command.src0 \in Nat /\ command.length \in Nat
        /\ command.opcode \in R!ReductionOpcodes
    <3>1. ReductionInv'
      BY ReductionAccepted
    <3>2. ReductionAdmitted'
      BY <2>1, <3>1 DEF ReductionInv, ReductionWorking, ReductionReading
    <3> QED BY <1>1, <3>2 DEF ReductionAdmitted
  <2>3. ReductionPosition' = 0
    BY <1>1, <2>1, <2>2 DEF ReductionPosition
  <2>4. ReductionFirst(command, 0) = {}
    BY <2>2 DEF ReductionFirst
  <2>5. ReductionPartial(command, memory, 0, accumulator')
    <3>1. CASE command.opcode = "SUM"
      <4>1. (0 % (2 ^ Reduction.accum_width)) = 0
        <5>1. 2 ^ Reduction.accum_width \in Nat \ {0}
          BY ReductionAccumulator DEF Even
        <5> DEFINE M == 2 ^ Reduction.accum_width
        <5> HIDE DEF M
        <5>2. (0 * M + 0) % M = 0
          BY <5>1, Remainder DEF M
        <5>3. 0 * M + 0 = 0
          BY <5>1 DEF M
        <5> QED BY <5>2, <5>3 DEF M
      <4> QED BY <2>1, <2>4, <3>1, <4>1, SumEmpty DEF ReductionPartial
    <3>2. CASE command.opcode # "SUM"
      <4>1. accumulator' = R!LeastElement(command.signed)
        BY <2>1, <2>2, <3>2 DEF R!ReductionOpcodes, R!LeastElement
      <4> QED BY <2>4, <3>2, <4>1, ReductionLeast DEF ReductionPartial
    <3> QED BY <3>1, <3>2
  <2>6. ReductionProgress'
    BY <1>1, <2>1, <2>3, <2>5 DEF ReductionProgress
  <2> QED BY <1>2, <2>1, <2>6 DEF ReductionData
<1> QED BY <1>3, <1>4

\* A step that changes neither data nor command.
LEMMA ReductionDataKept ==
  ASSUME ReductionData,
         UNCHANGED <<active, response, memory, before, elements_remaining, completed,
                     source_word, accumulator, result_word>>
  PROVE  /\ ReductionTypes'
         /\ state' = state => ReductionData'
BY DEF ReductionData, ReductionTypes, ReductionProgress, ReductionAnswer, ReductionPosition

\* Every step keeps the partial result exact.
LEMMA ReductionDataInductive ==
  ASSUME ReductionInv, ReductionData, R!Next
  PROVE  ReductionData'
<1> USE DEF ReductionWorking, ReductionReading
<1>1. ASSUME NEW command \in R!Offered, R!AcceptCommand(command) PROVE ReductionData'
  BY <1>1, ReductionAcceptedData DEF ReductionInv
<1>2. CASE R!Wait
  <2>1. /\ state' = state /\ completed' = completed + 0
        /\ UNCHANGED <<active, response, memory, before, elements_remaining,
                       source_word, accumulator, result_word>>
    BY <1>2 DEF R!Wait, R!Hold, R!Proceed, R!reductionVars
  <2>2. completed \in Nat
    BY DEF ReductionData, ReductionTypes
  <2> QED BY <2>1, <2>2, ReductionDataKept
<1>3. CASE R!RequestFire
  <2>1. /\ \/ /\ state = "REDUCTION_READ_REQUEST" /\ state' = "REDUCTION_READ_RESPONSE"
           \/ /\ state = "REDUCTION_WRITE_REQUEST" /\ state' = "REDUCTION_WRITE_RESPONSE"
        /\ completed' = completed + 0
        /\ UNCHANGED <<active, response, memory, before, elements_remaining,
                       source_word, accumulator, result_word>>
    BY <1>3 DEF R!RequestFire, R!Handshake, R!Proceed, R!reductionVars
  <2>2. completed' = completed
    BY <2>1 DEF ReductionData, ReductionTypes
  <2>3. ReductionPosition' = ReductionPosition
    BY <2>1 DEF ReductionPosition
  <2>4. ReductionProgress
    BY <2>1 DEF ReductionData
  <2>5. ReductionProgress'
    BY <2>1, <2>2, <2>3, <2>4 DEF ReductionProgress
  <2> QED BY <2>1, <2>2, <2>5, ReductionDataKept DEF ReductionData
<1>4. CASE R!Respond
  <2>1. completed \in Nat
    BY DEF ReductionData, ReductionTypes
  <2> QED BY <1>4, <2>1 DEF R!Respond, R!Handshake, R!Proceed, R!reductionVars, ReductionData,
                            ReductionTypes
<1>5. CASE R!Reset
  <2>1. 0 \in R!Elements
    BY ReductionElements DEF Even
  <2>2. R!ZeroWord \in [R!Lanes -> R!Elements]
    BY <2>1 DEF R!ZeroWord
  <2> QED BY <1>5, <2>2 DEF R!Reset, R!CoreReset, ReductionData, ReductionTypes
<1> QED BY <1>1, <1>2, <1>3, <1>4, <1>5, ReductionReadData, ReductionAccumulateData,
           ReductionWrittenData, ReductionFailsData DEF R!Next, R!Advance

\* It holds at the start.
LEMMA ReductionDataStarts == R!Init => ReductionData
<1> SUFFICES ASSUME R!Init PROVE ReductionData
  OBVIOUS
<1>1. 0 \in R!Elements
  BY ReductionElements DEF Even
<1>2. R!ZeroWord \in [R!Lanes -> R!Elements]
  BY <1>1 DEF R!ZeroWord
<1> QED BY <1>2, ContentsAreElements
        DEF R!Init, R!CoreInit, ReductionData, ReductionTypes, ReductionWorking,
            ReductionReading

\* From there every answer of the reduction accelerator is as promised.
LEMMA ReductionAnswers ==
  ASSUME ReductionData
  PROVE  R!ResultExact /\ R!FailureKeepsMemory
<1>1. R!SumFunction([a \in R!Source |-> R!Meaning(before[a], active.signed)])
        = Sum(ReductionTerms(active, before), ReductionFirst(active, active.length))
  <2> DEFINE F == [a \in R!Source |-> R!Meaning(before[a], active.signed)]
  <2>1. R!Source = ReductionFirst(active, active.length)
    BY DEF R!Source, ReductionFirst
  <2>2. F = ReductionTerms(active, before)
    BY DEF ReductionTerms, R!Source
  <2>3. DOMAIN F = R!Source
    OBVIOUS
  <2> HIDE DEF F
  <2>4. R!SumFunction(F) = Sum(F, R!Source)
    BY <2>3, SumFunctions
  <2> QED BY <2>1, <2>2, <2>4 DEF F
<1>2. ASSUME NEW e PROVE R!IsReduction(e) <=> ReductionOf(active, before, e)
  BY <1>1 DEF R!IsReduction, ReductionOf, R!Source, ReductionFirst
<1>3. R!ResultStored <=> ReductionStored(memory, before, active)
  BY <1>2 DEF R!ResultStored, ReductionStored
<1> QED BY <1>3 DEF ReductionData, ReductionAnswer, R!ResultExact, R!FailureKeepsMemory

----------------------------------------------------------------------------
(* The results of the GEMM accelerator. *)

\* What the generic lemmas on elements say of this accelerator's width.
LEMMA GemmElements ==
  /\ Even(G!Modulus)
  /\ G!Elements = 0 .. G!Modulus - 1
  /\ \A e, signed : G!Meaning(e, signed) = MeaningIn(G!Modulus, e, signed)
  /\ \A e \in G!Elements : \A signed : G!Meaning(e, signed) \in Int
  /\ \A x \in Int : \A signed, saturate :
       /\ G!Convert(x, signed, saturate) \in G!Elements
       /\ G!IsElementFor(G!Convert(x, signed, saturate), x, signed, saturate)
<1>1. Even(G!Modulus)
  <2>1. Gemm.element_width \in 1 .. Vector.element_width + Reduction.accum_width
                                       + Gemm.accum_width
        /\ Vector.element_width + Reduction.accum_width + Gemm.accum_width \in Nat
    BY Widths, ParametersValid DEF G!GemmParameters
  <2> QED BY <2>1, EvenPower, PowersOfTwo DEF G!Modulus
<1>2. G!Elements = 0 .. G!Modulus - 1
  BY DEF G!Elements
<1>3. \A e, signed : G!Meaning(e, signed) = MeaningIn(G!Modulus, e, signed)
  BY DEF G!Meaning, MeaningIn
<1>4. \A x, signed, saturate :
         G!Convert(x, signed, saturate) = ConvertIn(G!Modulus, x, signed, saturate)
  BY DEF G!Convert, ConvertIn, Clip, G!Maximum, G!Minimum
<1>5. ASSUME NEW e, NEW x, NEW signed, NEW saturate,
             FitsIn(G!Modulus, e, x, signed, saturate)
      PROVE  G!IsElementFor(e, x, signed, saturate)
  BY <1>2, <1>3, <1>5 DEF G!IsElementFor, G!Distance, FitsIn
<1>6. ASSUME NEW e \in G!Elements, NEW signed PROVE G!Meaning(e, signed) \in Int
  BY <1>1, <1>2, <1>3, MeaningRange
<1>7. ASSUME NEW x \in Int, NEW signed, NEW saturate
      PROVE  /\ G!Convert(x, signed, saturate) \in G!Elements
             /\ G!IsElementFor(G!Convert(x, signed, saturate), x, signed, saturate)
  BY <1>1, <1>2, <1>4, <1>5, ConvertFits
<1> QED BY <1>1, <1>2, <1>3, <1>6, <1>7

\* The accumulator holds, with its sign, the sum of as many products as a
\* command may have.
LEMMA GemmAccumulator ==
  /\ Even(2 ^ Gemm.accum_width)
  /\ Gemm.max_k \in Nat
  /\ \E p \in Nat : p >= Gemm.max_k
                    /\ 2 ^ Gemm.accum_width = p * (2 * (G!Modulus * G!Modulus))
  /\ \A v \in Int : G!SignedAccum(v) = MeaningIn(2 ^ Gemm.accum_width, v, TRUE)
<1> DEFINE w == Vector.element_width + Reduction.accum_width + Gemm.accum_width
           n == Gemm.element_width
           e == 2 * n + 1
           a == Gemm.accum_width
<1>1. /\ w \in Nat /\ n \in Nat \ {0} /\ a \in 1 .. w /\ a - e \in Nat
      /\ Gemm.max_k \in Nat /\ 2 ^ (a - e) >= Gemm.max_k
  <2>1. /\ Gemm.max_k \in Nat /\ a - 2 * n - 1 \in Nat /\ 2 ^ (a - 2 * n - 1) >= Gemm.max_k
        /\ n \in Nat \ {0} /\ a \in Nat \ {0}
    BY Widths, ParametersValid DEF G!GemmParameters
  <2>2. a - 2 * n - 1 = a - e
    BY <2>1
  <2> QED BY <2>1, <2>2, Widths
<1>2. \A i \in 1 .. w : 2 ^ i = 2 * 2 ^ (i - 1)
  BY PowersOfTwo
<1>m. G!Modulus = 2 ^ n
  BY DEF G!Modulus
<1> HIDE DEF w, n, a
<1>3. /\ Even(2 ^ a) /\ 2 ^ (a - 1) = 2 ^ a \div 2 /\ 2 ^ (a - e) \in Nat \ {0}
      /\ 2 ^ a = 2 ^ (a - e) * 2 ^ e
  <2>1. e \in Nat \ {0}
    BY <1>1
  <2> HIDE DEF e
  <2> QED BY <1>1, <1>2, <2>1, WidePower
<1>4. 2 ^ e = 2 * (2 ^ n * 2 ^ n)
  <2>1. n \in 0 .. w /\ n + 1 \in 1 .. w /\ n + 1 \in 0 .. w - n /\ n + (n + 1) = e
        /\ (n + 1) - 1 = n
    BY <1>1
  <2>2. 2 ^ n \in Nat /\ 2 ^ (n + 1) \in Nat
    <3>1. n + 1 \in 0 .. w
      BY <2>1
    <3> QED BY <1>1, <1>2, <2>1, <3>1, PowerNatural
  <2>3. 2 ^ (n + (n + 1)) = 2 ^ n * 2 ^ (n + 1)
    BY <1>1, <1>2, <2>1, PowerSum
  <2>4. 2 ^ (n + 1) = 2 * 2 ^ n
    <3>1. 2 ^ (n + 1) = 2 * 2 ^ ((n + 1) - 1)
      BY <1>2, <2>1
    <3> QED BY <2>1, <3>1
  <2>5. \A x \in Nat : x * (2 * x) = 2 * (x * x)
    OBVIOUS
  <2> HIDE DEF e
  <2> QED BY <2>1, <2>2, <2>3, <2>4, <2>5
<1>5. \E p \in Nat : p >= Gemm.max_k /\ 2 ^ a = p * (2 * (G!Modulus * G!Modulus))
  BY <1>1, <1>3, <1>4, <1>m
<1>6. ASSUME NEW v \in Int PROVE G!SignedAccum(v) = MeaningIn(2 ^ a, v, TRUE)
  <2>1. G!SignedAccum(v) = IF v < 2 ^ (a - 1) THEN v ELSE v - 2 ^ a
    BY DEF G!SignedAccum, a
  <2> QED BY <1>3, <2>1 DEF MeaningIn, Even
<1> QED BY <1>1, <1>3, <1>5, <1>6 DEF a

\* The storage of an array covers its elements.
LEMMA StorageHolds ==
  ASSUME NEW w \in Nat \ {0}, NEW count \in Nat
  PROVE  count <= ((count + w - 1) \div w) * w
<1> DEFINE s == (count + w - 1) \div w
<1>1. count + w - 1 \in Nat
  OBVIOUS
<1>2. /\ s \in Nat /\ (count + w - 1) % w \in 0 .. w - 1
      /\ count + w - 1 = s * w + ((count + w - 1) % w)
  BY <1>1, Division
<1> HIDE DEF s
<1>3. s * w \in Nat
  BY <1>2
<1> QED BY <1>2, <1>3 DEF s

\* No two elements of a matrix share an address.
LEMMA ElementsApart ==
  ASSUME NEW n \in Nat, NEW i \in Nat, NEW j \in 0 .. n - 1,
         NEW p \in Nat, NEW q \in 0 .. n - 1, i * n + j = p * n + q
  PROVE  i = p /\ j = q
<1>1. ASSUME NEW x \in Nat, NEW y \in Nat, x < y, NEW u \in 0 .. n - 1, NEW v \in 0 .. n - 1,
             x * n + u = y * n + v
      PROVE  FALSE
  <2>1. (x + 1) * n <= y * n
    BY <1>1, ProductGrows
  <2>2. (x + 1) * n = x * n + n /\ x * n \in Nat /\ y * n \in Nat
    OBVIOUS
  <2> QED BY <1>1, <2>1, <2>2
<1>2. i = p
  BY <1>1
<1>3. i * n \in Nat
  OBVIOUS
<1> QED BY <1>2, <1>3

\* The product of two numbers of limited size.
LEMMA ProductBounded ==
  ASSUME NEW b \in Nat, NEW x \in -b .. b, NEW y \in -b .. b
  PROVE  /\ x * y \in -(b * b) .. b * b /\ b * b \in Nat
         /\ x >= 0 /\ y >= 0 => x * y >= 0
<1>1. ASSUME NEW u \in 0 .. b, NEW v \in 0 .. b
      PROVE  u * v \in Nat /\ u * v <= b * b
  <2>1. u * v <= b * v
    BY ProductGrows
  <2>2. v * b <= b * b
    BY ProductGrows
  <2>3. b * v = v * b /\ u * v \in Nat /\ b * v \in Nat
    OBVIOUS
  <2> QED BY <2>1, <2>2, <2>3
<1>2. b * b \in Nat
  OBVIOUS
<1>3. PICK u \in 0 .. b : x = u \/ x = -u
  <2>1. CASE x >= 0
    BY <2>1
  <2>2. CASE x < 0
    <3>1. -x \in 0 .. b /\ x = -(-x)
      BY <2>2
    <3> QED BY <3>1
  <2> QED BY <2>1, <2>2
<1>4. PICK v \in 0 .. b : y = v \/ y = -v
  <2>1. CASE y >= 0
    BY <2>1
  <2>2. CASE y < 0
    <3>1. -y \in 0 .. b /\ y = -(-y)
      BY <2>2
    <3> QED BY <3>1
  <2> QED BY <2>1, <2>2
<1>5. x * y = u * v \/ x * y = -(u * v)
  <2>1. u * (-v) = -(u * v) /\ (-u) * v = -(u * v) /\ (-u) * (-v) = u * v
    OBVIOUS
  <2> QED BY <1>3, <1>4, <2>1
<1>6. u * v \in Nat /\ u * v <= b * b
  BY <1>1
<1>7. x >= 0 /\ y >= 0 => x * y >= 0
  OBVIOUS
<1> QED BY <1>2, <1>5, <1>6, <1>7

\* The elements of row i of A and of column j of B, and their products.
GemmAddressA(act, i, l) == act.src0 + i * act.k + l
GemmAddressB(act, l, j) == act.src1 + l * act.n + j
GemmAddressC(act, i, j) == act.dst + i * act.n + j

GemmTerms(act, bef, i, j) ==
  [l \in 0 .. act.k - 1 |->
     G!Meaning(bef[GemmAddressA(act, i, l)], act.signed)
       * G!Meaning(bef[GemmAddressB(act, l, j)], act.signed)]

GemmSum(act, bef, i, j, n) == Sum(GemmTerms(act, bef, i, j), 0 .. n - 1)

GemmOf(act, bef, i, j, element) ==
  G!IsElementFor(element, GemmSum(act, bef, i, j, act.k), act.signed, act.saturate)

\* The accumulator of an output after n products.
GemmPartial(act, bef, i, j, n, value) ==
  value = (GemmSum(act, bef, i, j, n) % (2 ^ Gemm.accum_width))

GemmOutputs(act) == {<<i, j>> : i \in 0 .. act.m - 1, j \in 0 .. act.n - 1}

\* The outputs of W are right and nothing else changed.
GemmProduct(mem, bef, act, W) ==
  /\ \A o \in W : GemmOf(act, bef, o[1], o[2], mem[GemmAddressC(act, o[1], o[2])])
  /\ \A a \in G!Space :
       (\A o \in W : a # GemmAddressC(act, o[1], o[2])) => mem[a] = bef[a]

\* Every entry of a legal matrix is a cell of the memory.
LEMMA MatrixSpace ==
  ASSUME NEW base \in Nat, NEW rows \in Nat, NEW columns \in Nat,
         G!scratchpad_range_is_legal(base, G!Storage(rows * columns)),
         NEW row \in 0 .. rows - 1, NEW column \in 0 .. columns - 1
  PROVE  /\ base + row * columns + column \in Nat
         /\ base + row * columns + column \in G!Space
         /\ base + row * columns + column >= base
         /\ G!Storage(rows * columns) \in Nat
         /\ base + row * columns + column < base + G!Storage(rows * columns)
<1> DEFINE W == Gemm.elements_per_word
           s == G!Storage(rows * columns)
           count == rows * columns
           offset == row * columns
<1>1. offset + column \in Nat /\ offset + column < count /\ count \in Nat /\ offset \in Nat
  BY ElementInMatrix
<1>2. W \in Nat \ {0} /\ Gemm.spm.base \in Nat /\ Gemm.spm.size \in Nat
  BY GemmBuild
<1>3. s = ((count + W - 1) \div W) * W
  BY DEF G!Storage
<1> HIDE DEF count, offset, W, s
<1>4. s \in Nat /\ count <= s
  BY <1>1, <1>2, <1>3, StorageNatural, StorageHolds
<1>5. /\ base >= Gemm.spm.base /\ base + s <= Gemm.spm.base + Gemm.spm.size
  BY DEF G!scratchpad_range_is_legal, s
<1>6. base + offset + column \in Nat /\ base + offset + column >= base
      /\ base + offset + column < base + s
  BY <1>1, <1>4
<1>7. base + offset + column \in Gemm.spm.base - W .. Gemm.spm.base + Gemm.spm.size + W - 1
  BY <1>2, <1>4, <1>5, <1>6
<1> QED BY <1>4, <1>6, <1>7 DEF G!Space, offset, W, s

\* Operands and results lie in memory and apart.
LEMMA GemmSpace ==
  ASSUME GemmAdmitted,
         NEW i \in 0 .. active.m - 1, NEW j \in 0 .. active.n - 1, NEW l \in 0 .. active.k - 1
  PROVE  /\ GemmAddressA(active, i, l) \in Nat /\ GemmAddressA(active, i, l) \in G!Space
         /\ GemmAddressB(active, l, j) \in Nat /\ GemmAddressB(active, l, j) \in G!Space
         /\ GemmAddressC(active, i, j) \in Nat /\ GemmAddressC(active, i, j) \in G!Space
         /\ \A o \in GemmOutputs(active) :
              /\ GemmAddressA(active, i, l) # GemmAddressC(active, o[1], o[2])
              /\ GemmAddressB(active, l, j) # GemmAddressC(active, o[1], o[2])
<1>1. /\ active.src0 \in Nat /\ active.src1 \in Nat /\ active.dst \in Nat
      /\ active.m \in Nat /\ active.n \in Nat /\ active.k \in Nat
      /\ G!scratchpad_range_is_legal(active.src0, G!Storage(active.m * active.k))
      /\ G!scratchpad_range_is_legal(active.src1, G!Storage(active.k * active.n))
      /\ G!scratchpad_range_is_legal(active.dst, G!Storage(active.m * active.n))
  BY DEF GemmAdmitted, G!OutOfBounds, G!AStorage, G!BStorage, G!CStorage
<1>2. /\ GemmAddressA(active, i, l) \in Nat /\ GemmAddressA(active, i, l) \in G!Space
      /\ GemmAddressA(active, i, l) >= active.src0
      /\ G!AStorage(active) \in Nat
      /\ GemmAddressA(active, i, l) < active.src0 + G!AStorage(active)
  BY <1>1, MatrixSpace DEF GemmAddressA, G!AStorage
<1>3. /\ GemmAddressB(active, l, j) \in Nat /\ GemmAddressB(active, l, j) \in G!Space
      /\ GemmAddressB(active, l, j) >= active.src1
      /\ G!BStorage(active) \in Nat
      /\ GemmAddressB(active, l, j) < active.src1 + G!BStorage(active)
  BY <1>1, MatrixSpace DEF GemmAddressB, G!BStorage
<1>4. ASSUME NEW r \in 0 .. active.m - 1, NEW c \in 0 .. active.n - 1
      PROVE  /\ GemmAddressC(active, r, c) \in Nat /\ GemmAddressC(active, r, c) \in G!Space
             /\ GemmAddressC(active, r, c) >= active.dst
             /\ G!CStorage(active) \in Nat
             /\ GemmAddressC(active, r, c) < active.dst + G!CStorage(active)
  BY <1>1, MatrixSpace DEF GemmAddressC, G!CStorage
<1>5. ASSUME NEW o \in GemmOutputs(active)
      PROVE  /\ GemmAddressA(active, i, l) # GemmAddressC(active, o[1], o[2])
             /\ GemmAddressB(active, l, j) # GemmAddressC(active, o[1], o[2])
  <2>1. PICK r \in 0 .. active.m - 1, c \in 0 .. active.n - 1 : o = <<r, c>>
    BY DEF GemmOutputs
  <2>2. o[1] = r /\ o[2] = c
    BY <2>1
  <2>3. /\ ~(active.dst < active.src0 + G!AStorage(active)
             /\ active.src0 < active.dst + G!CStorage(active))
        /\ ~(active.dst < active.src1 + G!BStorage(active)
             /\ active.src1 < active.dst + G!CStorage(active))
    BY DEF GemmAdmitted, G!ranges_overlap
  <2> QED BY <1>1, <1>2, <1>3, <1>4, <2>2, <2>3
<1> QED BY <1>2, <1>3, <1>4, <1>5

\* The outputs have addresses of their own.
LEMMA GemmApart ==
  ASSUME GemmAdmitted,
         NEW i \in 0 .. active.m - 1, NEW j \in 0 .. active.n - 1,
         NEW p \in 0 .. active.m - 1, NEW q \in 0 .. active.n - 1,
         GemmAddressC(active, i, j) = GemmAddressC(active, p, q)
  PROVE  i = p /\ j = q
<1>1. active.dst \in Nat /\ active.m \in Nat /\ active.n \in Nat
  BY DEF GemmAdmitted
<1>2. i \in Nat /\ p \in Nat /\ j \in Nat /\ q \in Nat
  BY <1>1
<1>3. i * active.n \in Nat /\ p * active.n \in Nat
  BY <1>1, <1>2
<1>4. i * active.n + j = p * active.n + q
  BY <1>1, <1>2, <1>3 DEF GemmAddressC
<1> QED BY <1>1, <1>2, <1>4, ElementsApart

\* The products of an output are numbers, of limited size.
LEMMA GemmTermsBounded ==
  ASSUME GemmAdmitted, before \in [G!Space -> G!Elements],
         NEW i \in 0 .. active.m - 1, NEW j \in 0 .. active.n - 1, NEW l \in 0 .. active.k - 1
  PROVE  LET b == G!Modulus - 1
             term == GemmTerms(active, before, i, j)[l]
         IN  /\ before[GemmAddressA(active, i, l)] \in G!Elements
             /\ before[GemmAddressB(active, l, j)] \in G!Elements
             /\ term = G!Meaning(before[GemmAddressA(active, i, l)], active.signed)
                         * G!Meaning(before[GemmAddressB(active, l, j)], active.signed)
             /\ term \in -(b * b) .. b * b
             /\ ~active.signed => term >= 0
<1> DEFINE m == G!Modulus
           x == G!Meaning(before[GemmAddressA(active, i, l)], active.signed)
           y == G!Meaning(before[GemmAddressB(active, l, j)], active.signed)
<1>1. /\ before[GemmAddressA(active, i, l)] \in G!Elements
      /\ before[GemmAddressB(active, l, j)] \in G!Elements
  BY GemmSpace
<1>2. ASSUME NEW e \in G!Elements
      PROVE  /\ G!Meaning(e, active.signed) \in -(m - 1) .. m - 1
             /\ ~active.signed => G!Meaning(e, active.signed) >= 0
             /\ m - 1 \in Nat
  <2>1. Even(m) /\ G!Elements = 0 .. m - 1
        /\ G!Meaning(e, active.signed) = MeaningIn(m, e, active.signed)
    BY GemmElements
  <2>2. /\ MeaningIn(m, e, active.signed) \in Int
        /\ active.signed => MeaningIn(m, e, active.signed) \in -(m \div 2) .. m \div 2 - 1
        /\ ~active.signed => MeaningIn(m, e, active.signed) \in 0 .. m - 1
    BY <2>1, MeaningRange
  <2> HIDE DEF m
  <2> QED BY <2>1, <2>2 DEF Even
<1>3. /\ x \in -(m - 1) .. m - 1 /\ y \in -(m - 1) .. m - 1 /\ m - 1 \in Nat
      /\ ~active.signed => x >= 0 /\ y >= 0
  BY <1>1, <1>2
<1>4. GemmTerms(active, before, i, j)[l] = x * y
  BY DEF GemmTerms
<1> HIDE DEF x, y, m
<1>5. /\ x * y \in -((m - 1) * (m - 1)) .. (m - 1) * (m - 1)
      /\ x >= 0 /\ y >= 0 => x * y >= 0
  BY <1>3, ProductBounded
<1> QED BY <1>1, <1>3, <1>4, <1>5 DEF x, y, m

\* The sum of all products fits the accumulator, so that conversion sees the
\* exact inner product.
LEMMA GemmConverts ==
  ASSUME GemmAdmitted, before \in [G!Space -> G!Elements],
         NEW i \in 0 .. active.m - 1, NEW j \in 0 .. active.n - 1, NEW value,
         GemmPartial(active, before, i, j, active.k, value)
  PROVE  /\ G!convert_accumulator(value) \in G!Elements
         /\ GemmOf(active, before, i, j, G!convert_accumulator(value))
<1> DEFINE m == G!Modulus
           M == 2 ^ Gemm.accum_width
           F == GemmTerms(active, before, i, j)
           K == active.k
           sum == GemmSum(active, before, i, j, K)
           b == (m - 1) * (m - 1)
           lo == IF active.signed THEN -b ELSE 0
<1>1. K \in Nat \ {0} /\ K <= Gemm.max_k
  BY DEF GemmAdmitted
<1>2. Even(m) /\ m \in Nat \ {0} /\ Even(M)
  BY GemmElements, GemmAccumulator DEF Even
<1>3. PICK p \in Nat : p >= Gemm.max_k /\ M = p * (2 * (m * m))
  BY GemmAccumulator
<1>4. b \in Nat
  <2> HIDE DEF m
  <2>1. m - 1 \in Nat
    BY <1>2
  <2> QED BY <2>1
<1>5. \A l \in 0 .. K - 1 : F[l] \in -b .. b /\ (~active.signed => F[l] >= 0)
  BY GemmTermsBounded
<1> HIDE DEF m, M, F, K, b
<1>6. \A l \in 0 .. 0 + K - 1 : F[l] \in lo .. b
  BY <1>1, <1>4, <1>5
<1>7. sum \in K * lo .. K * b
  <2>1. lo \in Int /\ b \in Int /\ 0 \in Int
    BY <1>4
  <2> HIDE DEF lo
  <2>2. Sum(F, 0 .. 0 + K - 1) \in K * lo .. K * b
    BY <1>1, <1>6, <2>1, SumBounded
  <2>3. 0 + K - 1 = K - 1
    BY <1>1
  <2> QED BY <2>2, <2>3 DEF GemmSum, F
<1> HIDE DEF sum
<1>8. K * b \in Nat /\ K * (-b) = -(K * b) /\ K * 0 = 0
  BY <1>1, <1>4
<1>9. sum \in Int /\ sum <= K * b /\ (active.signed => sum >= -(K * b))
      /\ (~active.signed => sum >= 0)
  BY <1>1, <1>4, <1>7, <1>8
<1>10. PICK H \in Nat : H = M \div 2 /\ M = 2 * H /\ K * b + 1 <= H
  <2>1. PICK H \in Nat : H = M \div 2 /\ M = 2 * H
    BY <1>2 DEF Even
  <2>2. PICK s \in Nat : s = m * m /\ b + 1 <= s
    <3>1. PICK d \in Nat : m = d + 1
      BY <1>2
    <3>2. m * m = d * d + 2 * d + 1 /\ d * d \in Nat
      BY <3>1
    <3>3. b = d * d
      BY <3>1 DEF b
    <3> QED BY <1>2, <3>2, <3>3
  <2>3. H = p * s
    <3>1. p * (2 * s) = 2 * (p * s) /\ p * s \in Nat
      BY <2>2
    <3> QED BY <1>3, <2>1, <2>2, <3>1
  <2>4. K * s <= p * s
    <3>1. K <= p
      BY <1>1, <1>3, GemmBuild
    <3> QED BY <1>1, <2>2, <3>1, ProductGrows
  <2>5. (b + 1) * K <= s * K
    BY <1>1, <1>4, <2>2, ProductGrows
  <2>6. (b + 1) * K = K * b + K /\ s * K = K * s /\ K * s \in Nat /\ p * s \in Nat
    BY <1>1, <1>4, <2>2
  <2> QED BY <1>1, <1>8, <2>1, <2>3, <2>4, <2>5, <2>6
<1>11. /\ active.signed => sum \in -(M \div 2) .. M \div 2 - 1
       /\ ~active.signed => sum \in 0 .. M - 1
  BY <1>8, <1>9, <1>10
<1>12. value = sum % M
  BY DEF GemmPartial, sum, M, K
<1>13. MeaningIn(M, value, active.signed) = sum
  BY <1>2, <1>9, <1>11, <1>12, RemainderMeans
<1>14. (IF active.signed THEN G!SignedAccum(value) ELSE value) = sum
  <2>1. value \in Int
    BY <1>2, <1>9, <1>12, IntegerDivision DEF Even
  <2>2. G!SignedAccum(value) = MeaningIn(M, value, TRUE)
    BY <2>1, GemmAccumulator DEF M
  <2>3. CASE active.signed
    BY <1>13, <2>2, <2>3 DEF MeaningIn
  <2>4. CASE ~active.signed
    BY <1>13, <2>4 DEF MeaningIn
  <2> QED BY <2>3, <2>4
<1>15. G!convert_accumulator(value) = G!Convert(sum, active.signed, active.saturate)
  BY <1>14 DEF G!convert_accumulator
<1>16. /\ G!convert_accumulator(value) \in G!Elements
       /\ G!IsElementFor(G!convert_accumulator(value), sum, active.signed, active.saturate)
  BY <1>9, <1>15, GemmElements
<1> QED BY <1>16 DEF GemmOf, sum, K

\* One more product.
LEMMA GemmAdds ==
  ASSUME GemmAdmitted, before \in [G!Space -> G!Elements],
         NEW i \in 0 .. active.m - 1, NEW j \in 0 .. active.n - 1,
         NEW l \in 0 .. active.k - 1, NEW value,
         GemmPartial(active, before, i, j, l, value)
  PROVE  GemmPartial(active, before, i, j, l + 1,
                     G!Accum(value
                       + G!multiply_elements(before[GemmAddressA(active, i, l)],
                                             before[GemmAddressB(active, l, j)])))
<1> DEFINE M == 2 ^ Gemm.accum_width
           F == GemmTerms(active, before, i, j)
           old == GemmSum(active, before, i, j, l)
           new == GemmSum(active, before, i, j, l + 1)
           e == G!multiply_elements(before[GemmAddressA(active, i, l)],
                                    before[GemmAddressB(active, l, j)])
<1>1. M \in Nat \ {0}
  BY GemmAccumulator DEF Even
<1>2. active.k \in Nat /\ l \in Nat
  BY DEF GemmAdmitted
<1>3. \A x \in 0 .. active.k - 1 : F[x] \in Int
  <2> SUFFICES ASSUME NEW x \in 0 .. active.k - 1 PROVE F[x] \in Int
    OBVIOUS
  <2> DEFINE b == (G!Modulus - 1) * (G!Modulus - 1)
  <2>1. F[x] \in -b .. b
    BY GemmTermsBounded
  <2> HIDE DEF b, F
  <2> QED BY <2>1
<1>4. e = F[l] % M
  <2>1. F[l] = G!Meaning(before[GemmAddressA(active, i, l)], active.signed)
                 * G!Meaning(before[GemmAddressB(active, l, j)], active.signed)
    BY GemmTermsBounded
  <2> QED BY <2>1 DEF G!multiply_elements, G!Accum
<1>5. value = old % M
  BY DEF GemmPartial
<1>6. old \in Int /\ new = old + F[l]
  <2> HIDE DEF F
  <2>0. PICK b \in Int : b = 0
    OBVIOUS
  <2>1. \A x \in b .. b + l : F[x] \in Int
    BY <1>2, <1>3, <2>0
  <2>2. /\ Sum(F, b .. b + l - 1) \in Int
        /\ Sum(F, b .. b + l) = Sum(F, b .. b + l - 1) + F[b + l]
    BY <1>2, <2>1, SumGrows
  <2>3. b + l - 1 = l - 1 /\ b + l = l /\ (l + 1) - 1 = l
    BY <1>2, <2>0
  <2>4. old = Sum(F, 0 .. l - 1) /\ new = Sum(F, 0 .. l)
    BY <2>3 DEF GemmSum, F
  <2> QED BY <2>0, <2>2, <2>3, <2>4
<1>7. F[l] \in Int
  BY <1>3
<1> HIDE DEF M, F, old, new, e
<1>8. (value + e) % M = new % M
  <2>1. ((old % M) + (F[l] % M)) % M = (old + F[l] + 0 * M) % M
    BY <1>1, <1>6, <1>7, 0 \in Int, RemainderOfSum
  <2>2. old + F[l] + 0 * M = new
    BY <1>1, <1>6, <1>7
  <2> QED BY <1>4, <1>5, <2>1, <2>2
<1> QED BY <1>8 DEF G!Accum, GemmPartial, M, new, e

\* The outputs written before the one at (x, y) of a tile: those of the tiles
\* above and to the left and those of the tile itself.
Passed(i, j, row, column, rows, columns, x, y) ==
  \/ i < row
  \/ i < row + rows /\ j < column
  \/ /\ j < column + columns
     /\ i < row + x \/ (i = row + x /\ j < column + y)

\* Those and the one at (x, y).
PassedOneMore(i, j, row, column, rows, columns, x, y) ==
  \/ Passed(i, j, row, column, rows, columns, x, y)
  \/ i = row + x /\ j = column + y

\* (x2, y2) is the place after (x, y).
NextInTile(x, y, x2, y2, rows, columns) ==
  \/ y + 1 < columns /\ x2 = x /\ y2 = y + 1
  \/ y + 1 = columns /\ x + 1 < rows /\ x2 = x + 1 /\ y2 = 0

\* The tile of row2 and column2 follows to the right or, at width, below.
TileAfter(row, column, rows, columns, row2, column2, rows2, width) ==
  \/ row2 = row /\ column2 = column + columns /\ rows2 = rows
  \/ row2 = row + rows /\ column2 = 0 /\ column + columns = width

\* The outputs of W are written, at most count of them.
GemmWrote(W, mem, bef, act, count) ==
  /\ W \subseteq GemmOutputs(act) /\ IsFiniteSet(W) /\ Cardinality(W) <= count
  /\ GemmProduct(mem, bef, act, W)

GemmReached(W) ==
  \A i \in 0 .. active.m - 1, j \in 0 .. active.n - 1 :
    Passed(i, j, tile_row_base, tile_column_base, G!valid_tile_rows, G!valid_tile_columns,
           IF state \in G!WriteC THEN write_row_index ELSE 0,
           IF state \in G!WriteC THEN write_column_index ELSE 0)
      => <<i, j>> \in W

GemmTypes ==
  /\ memory \in [G!Space -> G!Elements] /\ before \in [G!Space -> G!Elements]
  /\ a_values \in [G!Rows -> G!Elements] /\ b_values \in [G!Columns -> G!Elements]
  /\ completed \in Nat

\* What is loaded of the column of A and of the row of B.
GemmLoadedA ==
  \A row \in G!Rows :
    tile_row_base + row < active.m /\ (state \in G!ReadA => row < load_row_index) =>
      a_values[row] = before[GemmAddressA(active, tile_row_base + row, k_index)]

GemmLoadedB ==
  state \notin G!ReadA =>
    \A column \in G!Columns :
      /\ tile_column_base + column < active.n
      /\ state \in G!ReadB => column < load_column_index
      => b_values[column] = before[GemmAddressB(active, k_index, tile_column_base + column)]

GemmAccumulated ==
  \A row \in G!Rows, column \in G!Columns :
    tile_row_base + row < active.m /\ tile_column_base + column < active.n =>
      GemmPartial(active, before, tile_row_base + row, tile_column_base + column,
                  IF state \in G!WriteC THEN active.k ELSE k_index,
                  tile_accumulators[row][column])

GemmProgress ==
  /\ completed = outputs_written
  /\ \E W : GemmWrote(W, memory, before, active, completed) /\ GemmReached(W)
  /\ GemmLoadedA /\ GemmLoadedB /\ GemmAccumulated

GemmAnswer ==
  /\ response.error = "ERR_NONE" =>
       /\ GemmProduct(memory, before, active, GemmOutputs(active))
       /\ response.result = active.m * active.n
       /\ completed = active.m * active.n
  /\ response.error # "ERR_NONE" =>
       \/ completed = 0 /\ memory = before
       \/ /\ response.error = "ERR_ADDRESS" /\ GemmAdmitted
          /\ \E W : GemmWrote(W, memory, before, active, completed + 1)

GemmData ==
  /\ GemmTypes
  /\ state \in GemmWorking => GemmProgress
  /\ state = "GEMM_RESPONSE" => GemmAnswer

\* The output that follows in the tile.
LEMMA PassedInTile ==
  ASSUME NEW i \in Nat, NEW j \in Nat, NEW row \in Nat, NEW column \in Nat,
         NEW rows \in Nat, NEW columns \in Nat,
         NEW x \in 0 .. rows - 1, NEW y \in 0 .. columns - 1, NEW x2 \in Nat, NEW y2 \in Nat,
         NextInTile(x, y, x2, y2, rows, columns),
         Passed(i, j, row, column, rows, columns, x2, y2)
  PROVE  PassedOneMore(i, j, row, column, rows, columns, x, y)
BY DEF Passed, PassedOneMore, NextInTile

\* The tile that follows.
LEMMA PassedTile ==
  ASSUME NEW row \in Nat, NEW column \in Nat, NEW width \in Nat,
         NEW i \in Nat, NEW j \in Nat, j < width,
         NEW rows \in Nat \ {0}, NEW columns \in Nat \ {0}, NEW x \in Nat, NEW y \in Nat,
         x + 1 = rows, y + 1 = columns,
         NEW row2, NEW column2, NEW rows2, NEW columns2,
         TileAfter(row, column, rows, columns, row2, column2, rows2, width),
         Passed(i, j, row2, column2, rows2, columns2, 0, 0)
  PROVE  PassedOneMore(i, j, row, column, rows, columns, x, y)
<1>1. CASE row2 = row /\ column2 = column + columns /\ rows2 = rows
  <2>1. (i < row + rows /\ j < column + columns) \/ i < row
    BY <1>1 DEF Passed
  <2> QED BY <2>1 DEF Passed, PassedOneMore
<1>2. CASE row2 = row + rows /\ column2 = 0 /\ column + columns = width
  <2>1. i < row + rows
    BY <1>2 DEF Passed
  <2> QED BY <1>2, <2>1 DEF Passed, PassedOneMore
<1> QED BY <1>1, <1>2 DEF TileAfter

\* After the last output of the last tile, all are written.
LEMMA PassedAll ==
  ASSUME NEW i \in Nat, NEW j \in Nat, NEW row \in Nat, NEW column \in Nat,
         NEW rows \in Nat \ {0}, NEW columns \in Nat \ {0}, NEW x \in Nat, NEW y \in Nat,
         x + 1 = rows, y + 1 = columns, i < row + rows, j < column + columns
  PROVE  PassedOneMore(i, j, row, column, rows, columns, x, y)
BY DEF Passed, PassedOneMore

\* Rows and columns of the tile that are in the matrix.
LEMMA TileRows ==
  ASSUME GemmAdmitted, TileAt
  PROVE  /\ \A row \in G!Rows : row < G!valid_tile_rows <=> tile_row_base + row < active.m
         /\ \A row \in 0 .. G!valid_tile_rows - 1 :
              row \in G!Rows /\ tile_row_base + row \in 0 .. active.m - 1
         /\ \A column \in G!Columns :
              column < G!valid_tile_columns <=> tile_column_base + column < active.n
         /\ \A column \in 0 .. G!valid_tile_columns - 1 :
              column \in G!Columns /\ tile_column_base + column \in 0 .. active.n - 1
<1>1. /\ active.m \in Nat /\ active.n \in Nat /\ tile_row_base \in 0 .. active.m - 1
      /\ tile_column_base \in 0 .. active.n - 1
      /\ Gemm.tile_m \in Nat \ {0} /\ Gemm.tile_n \in Nat \ {0}
  BY GemmBuild DEF GemmAdmitted, TileAt
<1> QED BY <1>1 DEF G!Rows, G!Columns, G!valid_tile_rows, G!valid_tile_columns, G!AtMost

\* The element the memory returns is the addressed one.
LEMMA GemmElementRead ==
  ASSUME G!current_element_address \in Nat
  PROVE  G!response_element = memory[G!current_element_address]
<1> DEFINE a == G!current_element_address
           W == Gemm.elements_per_word
<1>1. W \in Nat \ {0} /\ a % W \in 0 .. W - 1
  BY GemmBuild, Division
<1>2. (a - (a % W)) + (a % W) = a
  <2> HIDE DEF a, W
  <2>1. a \in Nat /\ a % W \in Nat
    BY <1>1 DEF a
  <2> QED BY <2>1
<1>3. G!response_element = memory[(a - (a % W)) + (a % W)]
  BY <1>1 DEF G!response_element, G!Word, G!current_word_address, G!current_lane, G!Lanes
<1> QED BY <1>2, <1>3

\* The operands are still as they were.
LEMMA GemmOperands ==
  ASSUME GemmInv, GemmData, state \in GemmWorking,
         NEW i \in 0 .. active.m - 1, NEW j \in 0 .. active.n - 1
  PROVE  /\ memory[GemmAddressA(active, i, k_index)]
              = before[GemmAddressA(active, i, k_index)]
         /\ memory[GemmAddressB(active, k_index, j)]
              = before[GemmAddressB(active, k_index, j)]
         /\ memory[GemmAddressA(active, i, k_index)] \in G!Elements
         /\ memory[GemmAddressB(active, k_index, j)] \in G!Elements
<1>1. GemmAdmitted /\ TileAt /\ GemmProgress /\ GemmTypes
  BY DEF GemmInv, GemmData
<1>2. k_index \in 0 .. active.k - 1
  BY <1>1 DEF TileAt
<1>3. PICK W : GemmWrote(W, memory, before, active, completed)
  BY <1>1 DEF GemmProgress
<1>4. /\ GemmAddressA(active, i, k_index) \in G!Space
      /\ GemmAddressB(active, k_index, j) \in G!Space
      /\ \A o \in W :
           /\ GemmAddressA(active, i, k_index) # GemmAddressC(active, o[1], o[2])
           /\ GemmAddressB(active, k_index, j) # GemmAddressC(active, o[1], o[2])
  BY <1>1, <1>2, <1>3, GemmSpace DEF GemmWrote
<1> QED BY <1>1, <1>3, <1>4 DEF GemmWrote, GemmProduct, GemmTypes

\* The reads change neither memory nor tile.
LEMMA GemmReachedKept ==
  ASSUME UNCHANGED <<active, tile_row_base, tile_column_base, write_row_index,
                     write_column_index>>,
         state' \in G!WriteC <=> state \in G!WriteC
  PROVE  \A W : GemmReached(W) => GemmReached(W)'
<1>1. UNCHANGED <<G!valid_tile_rows, G!valid_tile_columns>>
  BY TileKept
<1> QED BY <1>1 DEF GemmReached

\* Steps that leave the accumulators alone keep what they hold.
LEMMA GemmAccumulatedKept ==
  ASSUME UNCHANGED <<active, before, tile_row_base, tile_column_base, k_index,
                     tile_accumulators>>,
         state' \in G!WriteC <=> state \in G!WriteC
  PROVE  GemmAccumulated => GemmAccumulated'
BY DEF GemmAccumulated

\* An element of A read is the entry of the row and the k at hand.
LEMMA GemmReadAData ==
  ASSUME GemmInv, GemmData, G!ElementOfARead
  PROVE  GemmData'
<1> DEFINE row == load_row_index
<1>1. /\ state = "GEMM_READ_A_RESPONSE"
      /\ state' = IF row + 1 >= G!valid_tile_rows THEN "GEMM_READ_B_REQUEST"
                  ELSE "GEMM_READ_A_REQUEST"
      /\ completed' = completed + 0
      /\ a_values' = [a_values EXCEPT ![row] = G!response_element]
      /\ load_column_index' = IF row + 1 >= G!valid_tile_rows THEN 0 ELSE load_column_index
      /\ load_row_index' = IF row + 1 >= G!valid_tile_rows THEN row ELSE row + 1
      /\ UNCHANGED <<active, response, before, memory, k_index, write_row_index,
                     write_column_index, outputs_written, tile_row_base, tile_column_base,
                     b_values, tile_accumulators>>
  BY DEF G!ElementOfARead, G!Handshake, G!Proceed, G!writeVars, G!tileVars
<1>2. state \in GemmWorking /\ state \in G!ReadA
  BY <1>1 DEF GemmWorking, G!ReadA
<1>3. GemmProgress /\ GemmTypes /\ GemmAdmitted /\ TileAt /\ row \in 0 .. G!valid_tile_rows - 1
  BY <1>2 DEF GemmData, GemmInv
<1>4. completed' = completed
  BY <1>1, <1>3 DEF GemmTypes
<1>5. /\ row \in G!Rows /\ tile_row_base + row \in 0 .. active.m - 1
      /\ \A r \in G!Rows : r < G!valid_tile_rows <=> tile_row_base + r < active.m
  BY <1>3, TileRows
<1>6. /\ G!response_element = before[GemmAddressA(active, tile_row_base + row, k_index)]
      /\ G!response_element \in G!Elements
  <2>1. G!current_element_address = GemmAddressA(active, tile_row_base + row, k_index)
    BY <1>1 DEF G!current_element_address, G!matrix_element_address, G!ReadB, G!WriteC,
                GemmAddressA
  <2>2. 0 \in 0 .. active.n - 1 /\ k_index \in 0 .. active.k - 1
    BY <1>3 DEF GemmAdmitted, TileAt
  <2>3. GemmAddressA(active, tile_row_base + row, k_index) \in Nat
    BY <1>3, <1>5, <2>2, GemmSpace
  <2>4. G!response_element = memory[GemmAddressA(active, tile_row_base + row, k_index)]
    BY <2>1, <2>3, GemmElementRead
  <2> QED BY <1>2, <1>5, <2>2, <2>4, GemmOperands
<1>7. GemmTypes'
  BY <1>1, <1>3, <1>4, <1>5, <1>6 DEF GemmTypes
<1>8. state' \notin G!WriteC /\ state \notin G!WriteC
  BY <1>1 DEF G!WriteC
<1>9. /\ state' \in G!ReadA => row + 1 < G!valid_tile_rows /\ load_row_index' = row + 1
      /\ state' \notin G!ReadA => row + 1 >= G!valid_tile_rows /\ state' \in G!ReadB
                                  /\ load_column_index' = 0
  <2>1. row + 1 \in Int /\ G!valid_tile_rows \in Int
    BY <1>3, ValidTile DEF GemmAdmitted, TileAt
  <2> HIDE DEF row
  <2> QED BY <1>1, <2>1 DEF G!ReadA, G!ReadB, row
<1>10. GemmLoadedA'
  <2> SUFFICES ASSUME NEW r \in G!Rows, tile_row_base + r < active.m,
                      state' \in G!ReadA => r < load_row_index'
               PROVE  a_values'[r] = before[GemmAddressA(active, tile_row_base + r, k_index)]
    BY <1>1 DEF GemmLoadedA
  <2>1. CASE r = row
    BY <1>1, <1>3, <1>6, <2>1 DEF GemmTypes
  <2>2. CASE r # row
    <3>1. r < row
      <4>1. r \in Nat /\ row \in Nat /\ r < G!valid_tile_rows /\ G!valid_tile_rows \in Nat
        BY <1>3, <1>5, GemmBuild, ValidTile DEF G!Rows, GemmAdmitted, TileAt
      <4> HIDE DEF row
      <4> QED BY <1>9, <2>2, <4>1
    <3>2. a_values'[r] = a_values[r]
      BY <1>1, <1>3, <2>2 DEF GemmTypes
    <3>3. GemmLoadedA
      BY <1>3 DEF GemmProgress
    <3> QED BY <3>1, <3>2, <3>3 DEF GemmLoadedA
  <2> QED BY <2>1, <2>2
<1>11. GemmLoadedB'
  <2> SUFFICES ASSUME NEW c \in G!Columns, state' \notin G!ReadA,
                      state' \in G!ReadB => c < load_column_index'
               PROVE  FALSE
    BY DEF GemmLoadedB
  <2>1. c \in Nat
    BY GemmBuild DEF G!Columns
  <2> QED BY <1>9, <2>1
<1>12. GemmAccumulated'
  BY <1>1, <1>3, <1>8, GemmAccumulatedKept DEF GemmProgress
<1>13. GemmProgress'
  BY <1>1, <1>3, <1>4, <1>8, <1>10, <1>11, <1>12, GemmReachedKept DEF GemmProgress
<1>14. state' # "GEMM_RESPONSE"
  BY <1>1
<1> QED BY <1>7, <1>13, <1>14 DEF GemmData

\* An element of B read is the entry of the k and the column at hand.
LEMMA GemmReadBData ==
  ASSUME GemmInv, GemmData, G!ElementOfBRead
  PROVE  GemmData'
<1> DEFINE column == load_column_index
<1>1. /\ state = "GEMM_READ_B_RESPONSE"
      /\ state' = IF column + 1 >= G!valid_tile_columns THEN "GEMM_MAC"
                  ELSE "GEMM_READ_B_REQUEST"
      /\ completed' = completed + 0
      /\ b_values' = [b_values EXCEPT ![column] = G!response_element]
      /\ load_column_index' = IF column + 1 >= G!valid_tile_columns THEN column
                              ELSE column + 1
      /\ UNCHANGED <<active, response, before, memory, k_index, load_row_index,
                     write_row_index, write_column_index, outputs_written, tile_row_base,
                     tile_column_base, a_values, tile_accumulators>>
  BY DEF G!ElementOfBRead, G!Handshake, G!Proceed, G!writeVars, G!tileVars
<1>2. state \in GemmWorking /\ state \in G!ReadB /\ state \notin G!ReadA
  BY <1>1 DEF GemmWorking, G!ReadA, G!ReadB
<1>3. /\ GemmProgress /\ GemmTypes /\ GemmAdmitted /\ TileAt
      /\ column \in 0 .. G!valid_tile_columns - 1
  BY <1>2 DEF GemmData, GemmInv
<1>4. completed' = completed
  BY <1>1, <1>3 DEF GemmTypes
<1>5. /\ column \in G!Columns /\ tile_column_base + column \in 0 .. active.n - 1
      /\ \A c \in G!Columns : c < G!valid_tile_columns <=> tile_column_base + c < active.n
  BY <1>3, TileRows
<1>6. /\ G!response_element = before[GemmAddressB(active, k_index, tile_column_base + column)]
      /\ G!response_element \in G!Elements
  <2>1. G!current_element_address = GemmAddressB(active, k_index, tile_column_base + column)
    BY <1>1 DEF G!current_element_address, G!matrix_element_address, G!ReadB, G!WriteC,
                GemmAddressB
  <2>2. 0 \in 0 .. active.m - 1 /\ k_index \in 0 .. active.k - 1
    BY <1>3 DEF GemmAdmitted, TileAt
  <2>3. GemmAddressB(active, k_index, tile_column_base + column) \in Nat
    <3>1. PICK j \in 0 .. active.n - 1 : j = tile_column_base + column
      BY <1>5
    <3>2. GemmAddressB(active, k_index, j) \in Nat
      BY <1>3, <2>2, GemmSpace
    <3> QED BY <3>1, <3>2
  <2>4. G!response_element = memory[GemmAddressB(active, k_index, tile_column_base + column)]
    BY <2>1, <2>3, GemmElementRead
  <2> QED BY <1>2, <1>5, <2>2, <2>4, GemmOperands
<1>7. GemmTypes'
  BY <1>1, <1>3, <1>4, <1>5, <1>6 DEF GemmTypes
<1>8. state' \notin G!WriteC /\ state \notin G!WriteC
  BY <1>1 DEF G!WriteC
<1>9. /\ state' \notin G!ReadA
      /\ state' \in G!ReadB => load_column_index' = column + 1
      /\ state' \notin G!ReadB => column + 1 >= G!valid_tile_columns
  <2>1. column + 1 \in Int /\ G!valid_tile_columns \in Int
    BY <1>3, ValidTile DEF GemmAdmitted, TileAt
  <2> HIDE DEF column
  <2> QED BY <1>1, <2>1 DEF G!ReadA, G!ReadB, column
<1>10. GemmLoadedB'
  <2> SUFFICES ASSUME NEW c \in G!Columns, tile_column_base + c < active.n,
                      state' \in G!ReadB => c < load_column_index'
               PROVE  b_values'[c]
                        = before[GemmAddressB(active, k_index, tile_column_base + c)]
    BY <1>1 DEF GemmLoadedB
  <2>1. CASE c = column
    BY <1>1, <1>3, <1>6, <2>1 DEF GemmTypes
  <2>2. CASE c # column
    <3>1. c < column
      <4>1. /\ c \in Nat /\ column \in Nat /\ c < G!valid_tile_columns
            /\ G!valid_tile_columns \in Nat
        BY <1>3, <1>5, GemmBuild, ValidTile DEF G!Columns, GemmAdmitted, TileAt
      <4> HIDE DEF column
      <4> QED BY <1>9, <2>2, <4>1
    <3>2. b_values'[c] = b_values[c]
      BY <1>1, <1>3, <2>2 DEF GemmTypes
    <3>3. GemmLoadedB
      BY <1>3 DEF GemmProgress
    <3> QED BY <1>2, <3>1, <3>2, <3>3 DEF GemmLoadedB
  <2> QED BY <2>1, <2>2
<1>11. GemmLoadedA'
  BY <1>1, <1>2, <1>3, <1>9 DEF GemmLoadedA, GemmProgress
<1>12. GemmAccumulated'
  BY <1>1, <1>3, <1>8, GemmAccumulatedKept DEF GemmProgress
<1>13. GemmProgress'
  BY <1>1, <1>3, <1>4, <1>8, <1>10, <1>11, <1>12, GemmReachedKept DEF GemmProgress
<1>14. state' # "GEMM_RESPONSE"
  BY <1>1
<1> QED BY <1>7, <1>13, <1>14 DEF GemmData

\* An inner index is finished: every valid accumulator gained its product.
LEMMA GemmMultiplies ==
  ASSUME GemmInv, GemmData, state = "GEMM_MAC"
  PROVE  \A row \in G!Rows, column \in G!Columns :
           tile_row_base + row < active.m /\ tile_column_base + column < active.n =>
             /\ row < G!valid_tile_rows /\ column < G!valid_tile_columns
             /\ GemmPartial(active, before, tile_row_base + row, tile_column_base + column,
                            k_index + 1,
                            G!Accum(tile_accumulators[row][column]
                                      + G!multiply_elements(a_values[row], b_values[column])))
<1>1. state \in GemmWorking /\ state \notin G!ReadA /\ state \notin G!ReadB
      /\ state \notin G!WriteC
  BY DEF GemmWorking, G!ReadA, G!ReadB, G!WriteC
<1>2. GemmProgress /\ GemmTypes /\ GemmAdmitted /\ TileAt
  BY <1>1 DEF GemmData, GemmInv
<1> SUFFICES ASSUME NEW row \in G!Rows, NEW column \in G!Columns,
                    tile_row_base + row < active.m, tile_column_base + column < active.n
             PROVE  /\ row < G!valid_tile_rows /\ column < G!valid_tile_columns
                    /\ GemmPartial(active, before, tile_row_base + row,
                                   tile_column_base + column, k_index + 1,
                                   G!Accum(tile_accumulators[row][column]
                                     + G!multiply_elements(a_values[row], b_values[column])))
  OBVIOUS
<1>3. row < G!valid_tile_rows /\ column < G!valid_tile_columns
  BY <1>2, TileRows
<1>4. PICK i \in 0 .. active.m - 1, j \in 0 .. active.n - 1 :
        i = tile_row_base + row /\ j = tile_column_base + column
  <2>1. /\ tile_row_base \in Nat /\ tile_column_base \in Nat /\ row \in Nat /\ column \in Nat
        /\ active.m \in Nat /\ active.n \in Nat
    BY <1>2, GemmBuild DEF TileAt, GemmAdmitted, G!Rows, G!Columns
  <2> QED BY <2>1
<1>5. a_values[row] = before[GemmAddressA(active, i, k_index)]
  BY <1>1, <1>2, <1>4 DEF GemmProgress, GemmLoadedA
<1>6. b_values[column] = before[GemmAddressB(active, k_index, j)]
  BY <1>1, <1>2, <1>4 DEF GemmProgress, GemmLoadedB
<1>7. GemmPartial(active, before, i, j, k_index, tile_accumulators[row][column])
  BY <1>1, <1>2, <1>4 DEF GemmProgress, GemmAccumulated
<1>8. k_index \in 0 .. active.k - 1
  BY <1>2 DEF TileAt
<1>9. GemmPartial(active, before, i, j, k_index + 1,
                  G!Accum(tile_accumulators[row][column]
                            + G!multiply_elements(a_values[row], b_values[column])))
  BY <1>2, <1>5, <1>6, <1>7, <1>8, GemmAdds DEF GemmTypes
<1> QED BY <1>3, <1>4, <1>9

\* A multiplication adds one more product to every entry of the tile.
LEMMA GemmMultiplyData ==
  ASSUME GemmInv, GemmData, G!MultiplyAccumulate
  PROVE  GemmData'
<1> DEFINE more == k_index + 1 < active.k
<1>1. /\ state = "GEMM_MAC"
      /\ state' = IF more THEN "GEMM_READ_A_REQUEST" ELSE "GEMM_WRITE_REQUEST"
      /\ completed' = completed + 0
      /\ tile_accumulators' =
           [row \in G!Rows |-> [column \in G!Columns |->
              IF row < G!valid_tile_rows /\ column < G!valid_tile_columns
                THEN G!Accum(tile_accumulators[row][column]
                               + G!multiply_elements(a_values[row], b_values[column]))
                ELSE tile_accumulators[row][column]]]
      /\ more => k_index' = k_index + 1 /\ load_row_index' = 0
      /\ ~more => write_row_index' = 0 /\ write_column_index' = 0 /\ k_index' = k_index
                  /\ load_row_index' = load_row_index
      /\ UNCHANGED <<active, response, before, memory, load_column_index, outputs_written,
                     tile_row_base, tile_column_base, a_values, b_values>>
  BY DEF G!MultiplyAccumulate, G!Handshake, G!Proceed, G!tileVars
<1>2. state \in GemmWorking /\ state \notin G!WriteC /\ state \notin G!ReadA
      /\ state \notin G!ReadB
  BY <1>1 DEF GemmWorking, G!ReadA, G!ReadB, G!WriteC
<1>3. GemmProgress /\ GemmTypes /\ GemmAdmitted /\ TileAt
  BY <1>2 DEF GemmData, GemmInv
<1>4. completed' = completed
  BY <1>1, <1>3 DEF GemmTypes
<1>5. GemmTypes'
  BY <1>1, <1>3, <1>4 DEF GemmTypes
<1>6. /\ more => state' \in G!ReadA /\ state' \notin G!WriteC
      /\ ~more => state' \in G!WriteC /\ state' \notin G!ReadA /\ state' \notin G!ReadB
  BY <1>1 DEF G!ReadA, G!ReadB, G!WriteC
<1>7. k_index + 1 = IF more THEN k_index' ELSE active.k
  <2>1. k_index \in Nat /\ active.k \in Nat /\ k_index < active.k
    BY <1>3 DEF TileAt, GemmAdmitted
  <2>2. ~more => k_index + 1 = active.k
    BY <2>1
  <2> HIDE DEF more
  <2> QED BY <1>1, <2>2
<1> HIDE DEF more
<1>8. GemmAccumulated'
  <2> SUFFICES ASSUME NEW row \in G!Rows, NEW column \in G!Columns,
                      tile_row_base + row < active.m, tile_column_base + column < active.n
               PROVE  GemmPartial(active, before, tile_row_base + row,
                                  tile_column_base + column,
                                  IF state' \in G!WriteC THEN active.k ELSE k_index',
                                  tile_accumulators'[row][column])
    BY <1>1 DEF GemmAccumulated
  <2>1. row < G!valid_tile_rows /\ column < G!valid_tile_columns
    BY <1>1, GemmMultiplies
  <2>2. tile_accumulators'[row][column]
          = G!Accum(tile_accumulators[row][column]
                      + G!multiply_elements(a_values[row], b_values[column]))
    BY <1>1, <2>1
  <2>3. (IF state' \in G!WriteC THEN active.k ELSE k_index') = k_index + 1
    BY <1>6, <1>7
  <2> QED BY <1>1, <2>2, <2>3, GemmMultiplies
<1>9. GemmLoadedA'
  <2>1. CASE more
    <3>1. \A row \in G!Rows : ~(row < 0)
      BY GemmBuild DEF G!Rows
    <3> QED BY <1>1, <1>6, <2>1, <3>1 DEF GemmLoadedA
  <2>2. CASE ~more
    BY <1>1, <1>2, <1>3, <1>6, <2>2 DEF GemmLoadedA, GemmProgress
  <2> QED BY <2>1, <2>2
<1>10. GemmLoadedB'
  BY <1>1, <1>2, <1>3, <1>6 DEF GemmLoadedB, GemmProgress
<1>11. \A W : GemmReached(W) => GemmReached(W)'
  <2>1. UNCHANGED <<G!valid_tile_rows, G!valid_tile_columns>>
    BY <1>1, TileKept
  <2>2. /\ (IF state' \in G!WriteC THEN write_row_index' ELSE 0) = 0
        /\ (IF state' \in G!WriteC THEN write_column_index' ELSE 0) = 0
        /\ (IF state \in G!WriteC THEN write_row_index ELSE 0) = 0
        /\ (IF state \in G!WriteC THEN write_column_index ELSE 0) = 0
    BY <1>1, <1>2, <1>6
  <2> QED BY <1>1, <2>1, <2>2 DEF GemmReached
<1>12. GemmProgress'
  BY <1>1, <1>3, <1>4, <1>8, <1>9, <1>10, <1>11 DEF GemmProgress
<1>13. state' # "GEMM_RESPONSE"
  BY <1>1
<1> QED BY <1>5, <1>12, <1>13 DEF GemmData

\* A write stores a right output and changes nothing else.
LEMMA GemmStores ==
  ASSUME GemmInv, GemmData, state = "GEMM_WRITE_RESPONSE"
  PROVE  LET i == tile_row_base + write_row_index
             j == tile_column_base + write_column_index
         IN  /\ G!Written \in [G!Space -> G!Elements]
             /\ \A W : GemmWrote(W, memory, before, active, completed) =>
                  GemmWrote(W \cup {<<i, j>>}, G!Written, before, active, completed + 1)
<1> DEFINE i == tile_row_base + write_row_index
           j == tile_column_base + write_column_index
           a == GemmAddressC(active, i, j)
           W0 == Gemm.elements_per_word
           e == G!output_element
<1>1. state \in GemmWorking /\ state \in G!WriteC /\ state \notin G!ReadB
  BY DEF GemmWorking, G!WriteC, G!ReadB
<1>2. GemmProgress /\ GemmTypes /\ GemmAdmitted /\ TileAt
      /\ write_row_index \in 0 .. G!valid_tile_rows - 1
      /\ write_column_index \in 0 .. G!valid_tile_columns - 1
  BY <1>1 DEF GemmData, GemmInv
<1>3. /\ write_row_index \in G!Rows /\ i \in 0 .. active.m - 1 /\ i < active.m
      /\ write_column_index \in G!Columns /\ j \in 0 .. active.n - 1 /\ j < active.n
  <2>1. /\ write_row_index \in G!Rows /\ i \in 0 .. active.m - 1
        /\ write_column_index \in G!Columns /\ j \in 0 .. active.n - 1
    BY <1>2, TileRows
  <2>2. active.m \in Nat /\ active.n \in Nat
    BY <1>2 DEF GemmAdmitted
  <2> HIDE DEF i, j
  <2> QED BY <2>1, <2>2
<1>4. e \in G!Elements /\ GemmOf(active, before, i, j, e)
  <2>1. GemmPartial(active, before, i, j, active.k,
                    tile_accumulators[write_row_index][write_column_index])
    BY <1>1, <1>2, <1>3 DEF GemmProgress, GemmAccumulated
  <2> QED BY <1>2, <1>3, <2>1, GemmConverts DEF G!output_element, GemmTypes
<1>5. a \in Nat /\ a \in G!Space
  <2>1. 0 \in 0 .. active.k - 1
    BY <1>2 DEF GemmAdmitted
  <2> QED BY <1>2, <1>3, <2>1, GemmSpace
<1>6. G!current_element_address = a
  BY <1>1 DEF G!current_element_address, G!matrix_element_address, GemmAddressC
<1>7. /\ W0 \in Nat \ {0} /\ a % W0 \in 0 .. W0 - 1
      /\ \A x \in G!Space : x \in Int
  <2>1. \A x \in G!Space : x \in Int
    BY GemmBuild DEF G!Space
  <2>2. W0 \in Nat \ {0}
    BY GemmBuild
  <2> HIDE DEF a, W0
  <2>3. a % W0 \in 0 .. W0 - 1
    BY <1>5, <2>2, Division
  <2> QED BY <2>1, <2>2, <2>3
<1>8. \A x \in G!Space : G!Written[x] = IF x = a THEN e ELSE memory[x]
  <2> SUFFICES ASSUME NEW x \in G!Space
               PROVE  G!Written[x] = IF x = a THEN e ELSE memory[x]
    OBVIOUS
  <2>1. G!current_lane = a % W0 /\ G!current_word_address = a - (a % W0)
    BY <1>6 DEF G!current_lane, G!current_word_address
  <2> DEFINE lane == a % W0
             word == a - lane
  <2>2. lane \in G!Lanes /\ lane \in Int
    BY <1>7 DEF G!Lanes
  <2>3. [G!ZeroWord EXCEPT ![lane] = e][lane] = e
    BY <2>2 DEF G!ZeroWord
  <2>4. x - word = lane <=> x = a
    <3>1. x \in Int /\ a \in Int
      BY <1>5, <1>7
    <3> HIDE DEF a, lane
    <3> QED BY <2>2, <3>1
  <2>5. G!Written[x] = IF x - word \in {lane} THEN [G!ZeroWord EXCEPT ![lane] = e][x - word]
                       ELSE memory[x]
    BY <2>1 DEF G!Written, G!Store
  <2> HIDE DEF lane, word, e, a
  <2> QED BY <2>3, <2>4, <2>5
<1> HIDE DEF a, e
<1>9. G!Written \in [G!Space -> G!Elements]
  <2>1. G!Written = [x \in G!Space |-> G!Written[x]]
    BY DEF G!Written, G!Store
  <2>2. \A x \in G!Space : G!Written[x] \in G!Elements
    BY <1>2, <1>4, <1>8 DEF GemmTypes
  <2> HIDE DEF G!Written
  <2> QED BY <2>1, <2>2
<1>10. ASSUME NEW W, GemmWrote(W, memory, before, active, completed)
       PROVE  GemmWrote(W \cup {<<i, j>>}, G!Written, before, active, completed + 1)
  <2>1. /\ W \subseteq GemmOutputs(active) /\ IsFiniteSet(W) /\ Cardinality(W) <= completed
        /\ GemmProduct(memory, before, active, W)
    BY <1>10 DEF GemmWrote
  <2>2. <<i, j>> \in GemmOutputs(active)
    BY <1>3 DEF GemmOutputs
  <2>3. IsFiniteSet(W \cup {<<i, j>>}) /\ Cardinality(W \cup {<<i, j>>}) <= completed + 1
    <3>1. /\ IsFiniteSet(W \cup {<<i, j>>}) /\ Cardinality(W) \in Nat
          /\ \/ Cardinality(W \cup {<<i, j>>}) = Cardinality(W)
             \/ Cardinality(W \cup {<<i, j>>}) = Cardinality(W) + 1
      BY <2>1, FS_AddElement, FS_CardinalityType
    <3>2. completed \in Nat
      BY <1>2 DEF GemmTypes
    <3> QED BY <2>1, <3>1, <3>2
  <2>4. ASSUME NEW o \in W \cup {<<i, j>>}
        PROVE  GemmOf(active, before, o[1], o[2],
                      G!Written[GemmAddressC(active, o[1], o[2])])
    <3>1. PICK p \in 0 .. active.m - 1, q \in 0 .. active.n - 1 : o = <<p, q>>
      BY <2>1, <2>2 DEF GemmOutputs
    <3>2. o[1] = p /\ o[2] = q
      BY <3>1
    <3>3. GemmAddressC(active, p, q) \in G!Space
      <4>1. 0 \in 0 .. active.k - 1
        BY <1>2 DEF GemmAdmitted
      <4> QED BY <1>2, <4>1, GemmSpace
    <3>4. CASE GemmAddressC(active, p, q) = a
      <4>1. p = i /\ q = j
        BY <1>2, <1>3, <3>4, GemmApart DEF a
      <4> QED BY <1>4, <1>8, <3>2, <3>3, <3>4, <4>1
    <3>5. CASE GemmAddressC(active, p, q) # a
      <4>1. o \in W
        <5>1. o # <<i, j>>
          BY <3>1, <3>5 DEF a
        <5> QED BY <5>1
      <4>2. G!Written[GemmAddressC(active, p, q)] = memory[GemmAddressC(active, p, q)]
        BY <1>8, <3>3, <3>5
      <4> QED BY <2>1, <3>2, <4>1, <4>2 DEF GemmProduct
    <3> QED BY <3>4, <3>5
  <2>5. ASSUME NEW x \in G!Space,
               \A o \in W \cup {<<i, j>>} : x # GemmAddressC(active, o[1], o[2])
        PROVE  G!Written[x] = before[x]
    <3>1. x # a
      <4>1. PICK o \in W \cup {<<i, j>>} : o = <<i, j>>
        OBVIOUS
      <4>2. o[1] = i /\ o[2] = j
        BY <4>1
      <4> QED BY <2>5, <4>2 DEF a
    <3>2. \A o \in W : x # GemmAddressC(active, o[1], o[2])
      BY <2>5
    <3> QED BY <1>8, <2>1, <3>1, <3>2 DEF GemmProduct
  <2>6. GemmProduct(G!Written, before, active, W \cup {<<i, j>>})
    BY <2>4, <2>5 DEF GemmProduct
  <2> QED BY <2>1, <2>2, <2>3, <2>6 DEF GemmWrote
<1> QED BY <1>9, <1>10

\* The inner product of no terms is 0.
LEMMA GemmPartialZero == \A act, bef, i, j : GemmPartial(act, bef, i, j, 0, 0)
<1> SUFFICES ASSUME NEW act, NEW bef, NEW i, NEW j PROVE GemmPartial(act, bef, i, j, 0, 0)
  OBVIOUS
<1>1. GemmSum(act, bef, i, j, 0) = 0
  <2>1. 0 .. 0 - 1 = {}
    OBVIOUS
  <2> QED BY <2>1, SumEmpty DEF GemmSum
<1>2. 2 ^ Gemm.accum_width \in Nat \ {0}
  BY GemmAccumulator DEF Even
<1> DEFINE M == 2 ^ Gemm.accum_width
<1> HIDE DEF M
<1>3. (0 * M + 0) % M = 0
  BY <1>2, Remainder DEF M
<1>4. 0 * M + 0 = 0
  BY <1>2 DEF M
<1> QED BY <1>1, <1>3, <1>4 DEF GemmPartial, M

\* The tile that follows, or the end of the matrix.
LEMMA TileFollows ==
  ASSUME GemmInv, state = "GEMM_WRITE_RESPONSE",
         write_column_index + 1 >= G!valid_tile_columns,
         write_row_index + 1 >= G!valid_tile_rows
  PROVE  LET r == G!valid_tile_rows
             c == G!valid_tile_columns
         IN  /\ write_column_index + 1 = c /\ write_row_index + 1 = r
             /\ outputs_written + 1 = active.m * active.n
                  => tile_row_base + r = active.m /\ tile_column_base + c = active.n
             /\ outputs_written + 1 # active.m * active.n =>
                  IF tile_column_base + c >= active.n
                    THEN tile_column_base + c = active.n /\ r = Gemm.tile_m
                    ELSE c = Gemm.tile_n
<1> DEFINE r == G!valid_tile_rows
           c == G!valid_tile_columns
<1>1. /\ GemmAdmitted /\ TileAt
      /\ write_row_index \in 0 .. r - 1 /\ write_column_index \in 0 .. c - 1
      /\ outputs_written = BeforeTile + (write_row_index * c + write_column_index)
  BY DEF GemmInv, GemmWorking, WrittenInTile, G!WriteC
<1>2. /\ r \in 1 .. active.m - tile_row_base /\ c \in 1 .. active.n - tile_column_base
      /\ r < active.m - tile_row_base => r = Gemm.tile_m
      /\ c < active.n - tile_column_base => c = Gemm.tile_n
  BY <1>1, ValidTile
<1>3. /\ active.m \in Nat \ {0} /\ active.n \in Nat \ {0} /\ tile_row_base \in Nat
      /\ tile_column_base \in Nat /\ r \in Nat \ {0} /\ c \in Nat \ {0}
  BY <1>1, <1>2 DEF GemmAdmitted, TileAt
<1>4. write_column_index + 1 = c /\ write_row_index + 1 = r
  BY <1>1, <1>3
<1>5. outputs_written + 1 = tile_row_base * active.n + r * (tile_column_base + c)
  BY <1>1, <1>4, TileFinished
<1> HIDE DEF r, c
<1>6. PICK t \in Nat, s \in Nat, n \in Nat, m \in Nat :
        t = tile_row_base /\ s = tile_column_base + c /\ n = active.n /\ m = active.m
  BY <1>3
<1>7. s <= n /\ t + r <= m
  BY <1>2, <1>3, <1>6
<1>8. r * s \in Nat /\ r * n \in Nat /\ t * n \in Nat /\ m * n \in Nat
      /\ (t + r) * n = t * n + r * n
  BY <1>3, <1>6
<1>9. (t + r) * n <= m * n
  BY <1>3, <1>6, <1>7, ProductGrows
<1>10. outputs_written + 1 = t * n + r * s
  BY <1>5, <1>6
<1>11. ASSUME outputs_written + 1 = m * n PROVE t + r = m /\ s = n
  <2>1. ASSUME s < n PROVE FALSE
    <3>1. (s + 1) * r <= n * r
      BY <1>3, <1>6, <2>1, ProductGrows
    <3>2. (s + 1) * r = r * s + r /\ n * r = r * n
      BY <1>3, <1>6
    <3> QED BY <1>3, <1>8, <1>9, <1>10, <1>11, <3>1, <3>2
  <2>2. s = n
    BY <1>6, <1>7, <2>1
  <2>3. ASSUME t + r < m PROVE FALSE
    <3>1. ((t + r) + 1) * n <= m * n
      BY <1>3, <1>6, <2>3, ProductGrows
    <3>2. ((t + r) + 1) * n = (t + r) * n + n /\ n \in Nat \ {0}
      BY <1>3, <1>6
    <3> QED BY <1>8, <1>10, <1>11, <2>2, <3>1, <3>2
  <2> QED BY <1>3, <1>6, <1>7, <2>2, <2>3
<1>12. ASSUME outputs_written + 1 # m * n
       PROVE  IF s >= n THEN s = n /\ r = Gemm.tile_m ELSE c = Gemm.tile_n
  <2>1. CASE s >= n
    <3>1. s = n
      BY <1>6, <1>7, <2>1
    <3>2. t + r # m
      BY <1>8, <1>10, <1>12, <3>1
    <3>3. r < active.m - tile_row_base
      BY <1>3, <1>6, <1>7, <3>2
    <3> QED BY <1>2, <2>1, <3>1, <3>3
  <2>2. CASE ~(s >= n)
    <3>1. c < active.n - tile_column_base
      BY <1>3, <1>6, <2>2
    <3> QED BY <1>2, <2>2, <3>1
  <2> QED BY <2>1, <2>2
<1> QED BY <1>4, <1>6, <1>11, <1>12 DEF r, c

\* An output is written.
LEMMA GemmWrittenData ==
  ASSUME GemmInv, GemmData, G!OutputWritten
  PROVE  GemmData'
<1> DEFINE r == G!valid_tile_rows
           c == G!valid_tile_columns
           x == write_row_index
           y == write_column_index
           cur == <<tile_row_base + x, tile_column_base + y>>
           tile_done == y + 1 >= c /\ x + 1 >= r
           all_done == outputs_written + 1 = active.m * active.n
           Done(i, j) == PassedOneMore(i, j, tile_row_base, tile_column_base, r, c, x, y)
<1>1. /\ state = "GEMM_WRITE_RESPONSE" /\ memory' = G!Written
      /\ outputs_written' = outputs_written + 1
      /\ completed' = completed + 1
      /\ UNCHANGED <<active, before, a_values, b_values>>
  BY DEF G!OutputWritten, G!NextOutput, G!NextTile, G!Proceed, G!Finish
<1>2. /\ state \in GemmWorking /\ state \in G!WriteC /\ state \notin G!ReadA
      /\ state \notin G!ReadB
  BY <1>1 DEF GemmWorking, G!WriteC, G!ReadA, G!ReadB
<1>3. /\ GemmProgress /\ GemmTypes /\ GemmAdmitted /\ TileAt
      /\ x \in 0 .. r - 1 /\ y \in 0 .. c - 1
  BY <1>2 DEF GemmData, GemmInv
<1>4. /\ r \in Nat \ {0} /\ c \in Nat \ {0} /\ tile_row_base \in Nat
      /\ tile_column_base \in Nat /\ active.m \in Nat /\ active.n \in Nat
      /\ x \in Nat /\ y \in Nat
  BY <1>3, ValidTile DEF GemmAdmitted, TileAt
<1>5. completed' = outputs_written' /\ completed' \in Nat
  BY <1>1, <1>3 DEF GemmProgress, GemmTypes
<1>6. PICK W : GemmWrote(W, memory, before, active, completed) /\ GemmReached(W)
  BY <1>3 DEF GemmProgress
<1>w. PICK W2 : W2 = W \cup {cur}
  OBVIOUS
<1>7. /\ G!Written \in [G!Space -> G!Elements]
      /\ GemmWrote(W2, G!Written, before, active, completed + 1)
  BY <1>1, <1>6, <1>w, GemmStores
<1>8. GemmTypes'
  BY <1>1, <1>3, <1>5, <1>7 DEF GemmTypes
<1>9. GemmWrote(W2, memory', before', active', completed')
  BY <1>1, <1>7
<1>10. ASSUME NEW i \in 0 .. active.m - 1, NEW j \in 0 .. active.n - 1, Done(i, j)
       PROVE  <<i, j>> \in W2
  <2>1. Passed(i, j, tile_row_base, tile_column_base, r, c, x, y) => <<i, j>> \in W
    BY <1>2, <1>6 DEF GemmReached
  <2>2. i = tile_row_base + x /\ j = tile_column_base + y => <<i, j>> = cur
    OBVIOUS
  <2> HIDE DEF cur
  <2> QED BY <1>10, <1>w, <2>1, <2>2 DEF PassedOneMore
<1>11. CASE ~tile_done
  <2>1. /\ state' = "GEMM_WRITE_REQUEST"
        /\ IF y + 1 < c THEN write_column_index' = y + 1 /\ write_row_index' = x
           ELSE write_row_index' = x + 1 /\ write_column_index' = 0
        /\ UNCHANGED <<tile_row_base, tile_column_base, k_index, tile_accumulators>>
    BY <1>11 DEF G!OutputWritten, G!NextOutput, G!Proceed, G!loadVars, G!tileVars
  <2>2. /\ state' \in G!WriteC /\ state' \notin G!ReadA /\ state' \notin G!ReadB
        /\ state' # "GEMM_RESPONSE"
    BY <2>1 DEF G!ReadA, G!ReadB, G!WriteC
  <2>3. UNCHANGED <<r, c>>
    BY <1>1, <2>1, TileKept
  <2>4. NextInTile(x, y, write_row_index', write_column_index', r, c)
        /\ write_row_index' \in Nat /\ write_column_index' \in Nat
    <3> HIDE DEF r, c, x, y
    <3> QED BY <1>3, <1>4, <1>11, <2>1 DEF NextInTile, x, y
  <2>5. GemmReached(W2)'
    <3> SUFFICES ASSUME NEW i \in 0 .. active.m - 1, NEW j \in 0 .. active.n - 1,
                        Passed(i, j, tile_row_base, tile_column_base, r, c,
                               write_row_index', write_column_index')
                 PROVE  <<i, j>> \in W2
      BY <1>1, <2>1, <2>2, <2>3 DEF GemmReached
    <3>1. write_row_index' \in Nat /\ write_column_index' \in Nat /\ i \in Nat /\ j \in Nat
      BY <1>4, <2>4
    <3>2. Done(i, j)
      <4> HIDE DEF r, c
      <4> QED BY <1>3, <1>4, <2>4, <3>1, PassedInTile
    <3> QED BY <1>10, <3>2
  <2>6. GemmAccumulated'
    BY <1>1, <1>2, <1>3, <2>1, <2>2, GemmAccumulatedKept DEF GemmProgress
  <2>7. GemmLoadedA' /\ GemmLoadedB'
    BY <1>1, <1>2, <1>3, <2>1, <2>2 DEF GemmLoadedA, GemmLoadedB, GemmProgress
  <2>8. GemmProgress'
    BY <1>5, <1>9, <2>5, <2>6, <2>7 DEF GemmProgress
  <2> QED BY <1>8, <2>2, <2>8 DEF GemmData
<1>12. CASE tile_done
  <2>1. /\ y + 1 = c /\ x + 1 = r
        /\ all_done => tile_row_base + r = active.m /\ tile_column_base + c = active.n
        /\ ~all_done => IF tile_column_base + c >= active.n
                          THEN tile_column_base + c = active.n /\ r = Gemm.tile_m
                          ELSE c = Gemm.tile_n
    BY <1>1, <1>12, TileFollows
  <2>2. CASE all_done
    <3>1. /\ state' = "GEMM_RESPONSE"
          /\ response' = [error |-> "ERR_NONE", result |-> active.m * active.n]
      BY <1>12, <2>2 DEF G!OutputWritten, G!Finish
    <3>2. GemmOutputs(active) \subseteq W2
      <4> SUFFICES ASSUME NEW i \in 0 .. active.m - 1, NEW j \in 0 .. active.n - 1
                   PROVE  <<i, j>> \in W2
        BY DEF GemmOutputs
      <4>1. i \in Nat /\ j \in Nat /\ i < tile_row_base + r /\ j < tile_column_base + c
        BY <1>4, <2>1, <2>2
      <4>2. Done(i, j)
        <5> HIDE DEF r, c
        <5> QED BY <1>4, <2>1, <4>1, PassedAll
      <4> QED BY <1>10, <4>2
    <3>3. W2 = GemmOutputs(active)
      BY <1>7, <3>2 DEF GemmWrote
    <3>4. GemmProduct(memory', before', active', GemmOutputs(active'))
      BY <1>1, <1>9, <3>3 DEF GemmWrote
    <3>5. completed' = active.m * active.n
      BY <1>1, <1>5, <2>2
    <3>6. GemmAnswer'
      BY <1>1, <3>1, <3>4, <3>5 DEF GemmAnswer
    <3>7. state' \notin GemmWorking
      BY <3>1 DEF GemmWorking, G!ReadA, G!ReadB, G!WriteC
    <3> QED BY <1>8, <3>6, <3>7 DEF GemmData
  <2>3. CASE ~all_done
    <3>1. /\ state' = "GEMM_READ_A_REQUEST" /\ k_index' = 0 /\ load_row_index' = 0
          /\ tile_accumulators' = G!ZeroTile
          /\ IF tile_column_base + c >= active.n
               THEN tile_column_base' = 0 /\ tile_row_base' = tile_row_base + Gemm.tile_m
               ELSE tile_column_base' = tile_column_base + Gemm.tile_n
                    /\ tile_row_base' = tile_row_base
      BY <1>12, <2>3 DEF G!OutputWritten, G!NextTile, G!Proceed
    <3>2. /\ state' \in G!ReadA /\ state' \notin G!WriteC /\ state' # "GEMM_RESPONSE"
      BY <3>1 DEF G!ReadA, G!WriteC
    <3>3. tile_row_base' = tile_row_base => r' = r
      BY <1>1 DEF G!valid_tile_rows
    <3>4. TileAfter(tile_row_base, tile_column_base, r, c, tile_row_base', tile_column_base',
                    r', active.n)
      <4> HIDE DEF r, c
      <4> QED BY <2>1, <2>3, <3>1, <3>3 DEF TileAfter
    <3>5. GemmReached(W2)'
      <4> SUFFICES ASSUME NEW i \in 0 .. active.m - 1, NEW j \in 0 .. active.n - 1,
                          Passed(i, j, tile_row_base', tile_column_base', r', c', 0, 0)
                   PROVE  <<i, j>> \in W2
        BY <1>1, <3>2 DEF GemmReached
      <4>1. i \in Nat /\ j \in Nat /\ j < active.n
        BY <1>4
      <4>2. Done(i, j)
        <5> HIDE DEF r, c
        <5> QED BY <1>4, <2>1, <3>4, <4>1, PassedTile
      <4> QED BY <1>10, <4>2
    <3>6. GemmAccumulated'
      BY <3>1, <3>2, GemmPartialZero DEF GemmAccumulated, G!ZeroTile
    <3>7. GemmLoadedA' /\ GemmLoadedB'
      <4>1. \A row \in G!Rows : ~(row < 0)
        BY GemmBuild DEF G!Rows
      <4> QED BY <3>1, <3>2, <4>1 DEF GemmLoadedA, GemmLoadedB
    <3>8. GemmProgress'
      BY <1>5, <1>9, <3>5, <3>6, <3>7 DEF GemmProgress
    <3> QED BY <1>8, <3>2, <3>8 DEF GemmData
  <2> QED BY <2>2, <2>3
<1> QED BY <1>11, <1>12

\* A failed access leaves the outputs, at most with the one being written.
LEMMA GemmFailsData ==
  ASSUME GemmInv, GemmData, G!AccessFails
  PROVE  GemmData'
<1>1. /\ state' = "GEMM_RESPONSE" /\ completed' = completed + 0
      /\ response' = [error |-> "ERR_ADDRESS", result |-> 0]
      /\ state \in {"GEMM_READ_A_RESPONSE", "GEMM_READ_B_RESPONSE", "GEMM_WRITE_RESPONSE"}
      /\ UNCHANGED <<active, before, a_values, b_values>>
      /\ memory' = memory \/ (state = "GEMM_WRITE_RESPONSE" /\ memory' = G!Written)
  BY DEF G!AccessFails, G!MemoryError, G!Finish, G!gemmVars
<1>2. state \in GemmWorking /\ state' \notin GemmWorking
  BY <1>1 DEF GemmWorking, G!ReadA, G!ReadB, G!WriteC
<1>3. GemmProgress /\ GemmTypes /\ GemmAdmitted
  BY <1>2 DEF GemmData, GemmInv
<1>4. completed' = completed /\ completed \in Nat
  BY <1>1, <1>3 DEF GemmTypes
<1>5. GemmTypes'
  BY <1>1, <1>3, <1>4, GemmStores DEF GemmTypes
<1>6. GemmAdmitted'
  BY <1>1, <1>3 DEF GemmAdmitted, G!OutOfBounds
<1>7. PICK W : GemmWrote(W, memory, before, active, completed)
  BY <1>3 DEF GemmProgress
<1>8. \E U : GemmWrote(U, memory', before', active', completed' + 1)
  <2>1. CASE memory' = memory
    <3>1. Cardinality(W) \in Nat /\ Cardinality(W) <= completed
      BY <1>7, FS_CardinalityType DEF GemmWrote
    <3>2. Cardinality(W) <= completed + 1
      BY <1>4, <3>1
    <3>3. GemmWrote(W, memory', before', active', completed' + 1)
      BY <1>1, <1>4, <1>7, <2>1, <3>2 DEF GemmWrote
    <3> QED BY <3>3
  <2>2. CASE state = "GEMM_WRITE_RESPONSE" /\ memory' = G!Written
    <3>1. \E U : GemmWrote(U, G!Written, before, active, completed + 1)
      BY <1>7, <2>2, GemmStores
    <3> QED BY <1>1, <1>4, <2>2, <3>1
  <2> QED BY <1>1, <2>1, <2>2
<1>9. GemmAnswer'
  BY <1>1, <1>6, <1>8 DEF GemmAnswer
<1> QED BY <1>1, <1>2, <1>5, <1>9 DEF GemmData

\* An accepted or refused command has stored nothing yet.
LEMMA GemmAcceptedData ==
  ASSUME accepted \in Nat, GemmData, NEW command \in G!Offered, G!AcceptCommand(command)
  PROVE  GemmData'
<1>1. /\ active' = command /\ before' = memory /\ memory' = memory /\ completed' = 0
      /\ outputs_written' = 0 /\ tile_row_base' = 0 /\ tile_column_base' = 0
      /\ k_index' = 0 /\ load_row_index' = 0 /\ tile_accumulators' = G!ZeroTile
      /\ UNCHANGED <<a_values, b_values>>
  BY DEF G!AcceptCommand, G!Accept, G!ClearIndices
<1>2. GemmTypes'
  BY <1>1 DEF GemmData, GemmTypes
<1>3. CASE G!command_validation_error(command) # "ERR_NONE"
  <2>1. /\ state' = "GEMM_RESPONSE"
        /\ response' = [error |-> G!command_validation_error(command), result |-> 0]
    BY <1>3 DEF G!AcceptCommand, G!Accept
  <2>2. GemmAnswer'
    BY <1>1, <1>3, <2>1 DEF GemmAnswer
  <2> QED BY <1>2, <2>1, <2>2 DEF GemmData, GemmWorking, G!ReadA, G!ReadB, G!WriteC
<1>4. CASE G!command_validation_error(command) = "ERR_NONE"
  <2>1. state' = "GEMM_READ_A_REQUEST"
    BY <1>4 DEF G!AcceptCommand, G!Accept
  <2>2. state' \in G!ReadA /\ state' \notin G!WriteC /\ state' # "GEMM_RESPONSE"
    BY <2>1 DEF G!ReadA, G!WriteC
  <2>3. GemmWrote({}, memory', before', active', completed')
    <3>1. IsFiniteSet({}) /\ Cardinality({}) <= 0
      BY FS_EmptySet
    <3>2. GemmProduct(memory', before', active', {})
      BY <1>1 DEF GemmProduct
    <3> QED BY <1>1, <3>1, <3>2 DEF GemmWrote
  <2>4. GemmReached({})'
    <3> SUFFICES ASSUME NEW i \in 0 .. active'.m - 1, NEW j \in 0 .. active'.n - 1,
                        Passed(i, j, 0, 0, G!valid_tile_rows', G!valid_tile_columns', 0, 0)
                 PROVE  FALSE
      BY <1>1, <2>2 DEF GemmReached
    <3>1. i \in Nat /\ j \in Nat
      OBVIOUS
    <3> QED BY <3>1 DEF Passed
  <2>5. GemmAccumulated'
    BY <1>1, <2>2, GemmPartialZero DEF GemmAccumulated, G!ZeroTile
  <2>6. GemmLoadedA' /\ GemmLoadedB'
    <3>1. \A row \in G!Rows : ~(row < 0)
      BY GemmBuild DEF G!Rows
    <3> QED BY <1>1, <2>2, <3>1 DEF GemmLoadedA, GemmLoadedB
  <2>7. GemmProgress'
    BY <1>1, <2>3, <2>4, <2>5, <2>6 DEF GemmProgress
  <2> QED BY <1>2, <2>2, <2>7 DEF GemmData
<1> QED BY <1>3, <1>4

\* A step that changes neither data nor command nor place.
GemmSame ==
  UNCHANGED <<active, response, memory, before, completed, outputs_written, tile_row_base,
              tile_column_base, k_index, load_row_index, load_column_index,
              write_row_index, write_column_index, a_values, b_values, tile_accumulators>>

\* A step that changes none of this keeps it.
LEMMA GemmDataKept ==
  ASSUME GemmData, GemmSame
  PROVE  /\ GemmTypes'
         /\ GemmAnswer => GemmAnswer'
         /\ /\ state' \in G!ReadA <=> state \in G!ReadA
            /\ state' \in G!ReadB <=> state \in G!ReadB
            /\ state' \in G!WriteC <=> state \in G!WriteC
            => (GemmProgress => GemmProgress')
<1>1. GemmTypes'
  BY DEF GemmSame, GemmData, GemmTypes
<1>2. GemmAnswer => GemmAnswer'
  <2>1. GemmAdmitted => GemmAdmitted'
    BY DEF GemmSame, GemmAdmitted, G!OutOfBounds
  <2> QED BY <2>1 DEF GemmSame, GemmAnswer
<1>3. ASSUME /\ state' \in G!ReadA <=> state \in G!ReadA
             /\ state' \in G!ReadB <=> state \in G!ReadB
             /\ state' \in G!WriteC <=> state \in G!WriteC,
             GemmProgress
      PROVE  GemmProgress'
  <2>1. \A W : GemmReached(W) => GemmReached(W)'
    BY <1>3, GemmReachedKept DEF GemmSame
  <2>2. GemmAccumulated'
    BY <1>3, GemmAccumulatedKept DEF GemmSame, GemmProgress
  <2>3. GemmLoadedA' /\ GemmLoadedB'
    BY <1>3 DEF GemmSame, GemmProgress, GemmLoadedA, GemmLoadedB
  <2> QED BY <1>3, <2>1, <2>2, <2>3 DEF GemmSame, GemmProgress
<1> QED BY <1>1, <1>2, <1>3

\* Every step keeps the outputs and the accumulators exact.
LEMMA GemmDataInductive ==
  ASSUME GemmInv, GemmData, G!Next
  PROVE  GemmData'
<1> USE DEF GemmWorking, G!ReadA, G!ReadB, G!WriteC
<1>1. ASSUME NEW command \in G!Offered, G!AcceptCommand(command) PROVE GemmData'
  BY <1>1, GemmAcceptedData DEF GemmInv
<1>2. completed \in Nat
  BY DEF GemmData, GemmTypes
<1>3. CASE G!Wait \/ G!RequestFire
  <2>1. /\ completed' = completed + 0
        /\ \/ state' = state
           \/ /\ state = "GEMM_READ_A_REQUEST" /\ state' = "GEMM_READ_A_RESPONSE"
           \/ /\ state = "GEMM_READ_B_REQUEST" /\ state' = "GEMM_READ_B_RESPONSE"
           \/ /\ state = "GEMM_WRITE_REQUEST" /\ state' = "GEMM_WRITE_RESPONSE"
    BY <1>3 DEF G!Wait, G!Hold, G!RequestFire, G!Handshake, G!Proceed
  <2>2. completed' = completed
    BY <1>2, <2>1
  <2>3. GemmSame
    BY <1>3, <2>2 DEF G!Wait, G!Hold, G!RequestFire, G!Handshake, G!Proceed, G!gemmVars,
       G!loadVars, G!writeVars, G!tileVars, GemmSame
  <2> QED BY <2>1, <2>3, GemmDataKept DEF GemmData
<1>4. CASE G!Respond
  <2>1. completed' = completed + 0 /\ state' = "GEMM_IDLE"
    BY <1>4 DEF G!Respond, G!Handshake, G!Proceed
  <2>2. GemmTypes'
    BY <1>2, <1>4, <2>1 DEF G!Respond, G!Handshake, G!Proceed, G!gemmVars, GemmData, GemmTypes
  <2> QED BY <2>1, <2>2 DEF GemmData
<1>5. CASE G!Reset
  <2>1. 0 \in G!Elements
    BY GemmElements DEF Even
  <2> QED BY <1>5, <2>1 DEF G!Reset, G!CoreReset, GemmData, GemmTypes
<1> QED BY <1>1, <1>3, <1>4, <1>5, GemmReadAData, GemmReadBData, GemmMultiplyData,
           GemmWrittenData, GemmFailsData DEF G!Next, G!Advance

\* It holds at the start.
LEMMA GemmDataStarts == G!Init => GemmData
<1> SUFFICES ASSUME G!Init PROVE GemmData
  OBVIOUS
<1>1. 0 \in G!Elements
  BY GemmElements DEF Even
<1> QED BY <1>1, ContentsAreElements
        DEF G!Init, G!CoreInit, GemmData, GemmTypes, GemmWorking, G!ReadA, G!ReadB, G!WriteC

\* From there every answer of the GEMM accelerator is as promised.
LEMMA GemmAnswers ==
  ASSUME GemmData
  PROVE  G!ResultExact /\ G!FailureKeepsOutputs
<1>1. G!Outputs = GemmOutputs(active)
  BY DEF G!Outputs, GemmOutputs
<1>2. \A o : G!OutputAddress(o) = GemmAddressC(active, o[1], o[2])
  BY DEF G!OutputAddress, GemmAddressC
<1>3. ASSUME NEW e, NEW o
      PROVE  G!IsProduct(e, o) <=> GemmOf(active, before, o[1], o[2], e)
  <2> DEFINE F == [l \in 0 .. active.k - 1 |->
                     G!Meaning(before[active.src0 + o[1] * active.k + l], active.signed)
                       * G!Meaning(before[active.src1 + l * active.n + o[2]], active.signed)]
  <2>1. F = GemmTerms(active, before, o[1], o[2])
    BY DEF GemmTerms, GemmAddressA, GemmAddressB
  <2>2. DOMAIN F = 0 .. active.k - 1
    OBVIOUS
  <2> HIDE DEF F
  <2>3. G!SumFunction(F) = Sum(F, 0 .. active.k - 1)
    BY <2>2, SumFunctions
  <2> QED BY <2>1, <2>3 DEF G!IsProduct, GemmOf, GemmSum, F
<1>4. ASSUME NEW W, GemmProduct(memory, before, active, W) PROVE G!Product(W)
  <2>1. ASSUME NEW a \in G!Space \ {G!OutputAddress(o) : o \in W}
        PROVE  memory[a] = before[a]
    <3>1. \A o \in W : a # GemmAddressC(active, o[1], o[2])
      BY <1>2
    <3> QED BY <1>4, <3>1 DEF GemmProduct
  <2> QED BY <1>2, <1>3, <1>4, <2>1 DEF G!Product, GemmProduct
<1>c. \A S : G!Cardinality(S) = Cardinality(S)
  BY DEF G!Cardinality, Cardinality
<1>5. G!ResultExact
  BY <1>1, <1>4 DEF GemmData, GemmAnswer, G!ResultExact
<1>6. G!FailureKeepsOutputs
  <2> SUFFICES ASSUME state = "GEMM_RESPONSE", response.error # "ERR_NONE",
                      ~(completed = 0 /\ memory = before)
               PROVE  /\ response.error = "ERR_ADDRESS"
                      /\ LET changed == {o \in G!Outputs : memory[G!OutputAddress(o)]
                                                            # before[G!OutputAddress(o)]}
                         IN  G!Product(changed) /\ Cardinality(changed) <= completed + 1
    BY <1>c DEF G!FailureKeepsOutputs
  <2>1. /\ response.error = "ERR_ADDRESS" /\ GemmAdmitted
        /\ \E W : GemmWrote(W, memory, before, active, completed + 1)
        /\ completed \in Nat
    <3>1. GemmAnswer /\ completed \in Nat
      BY DEF GemmData, GemmTypes
    <3>2. \/ completed = 0 /\ memory = before
          \/ /\ response.error = "ERR_ADDRESS" /\ GemmAdmitted
             /\ \E W : GemmWrote(W, memory, before, active, completed + 1)
      BY <3>1 DEF GemmAnswer
    <3> QED BY <3>1, <3>2
  <2>2. PICK W : GemmWrote(W, memory, before, active, completed + 1)
    BY <2>1
  <2> DEFINE C == {o \in G!Outputs : memory[G!OutputAddress(o)] # before[G!OutputAddress(o)]}
  <2>3. C \subseteq W
    <3> SUFFICES ASSUME NEW o \in C, o \notin W PROVE FALSE
      OBVIOUS
    <3>1. PICK i \in 0 .. active.m - 1, j \in 0 .. active.n - 1 : o = <<i, j>>
      BY <1>1 DEF GemmOutputs
    <3>2. o[1] = i /\ o[2] = j
      BY <3>1
    <3>3. GemmAddressC(active, i, j) \in G!Space
      <4>1. 0 \in 0 .. active.k - 1
        BY <2>1 DEF GemmAdmitted
      <4> QED BY <2>1, <4>1, GemmSpace
    <3>4. ASSUME NEW w \in W, GemmAddressC(active, i, j) = GemmAddressC(active, w[1], w[2])
          PROVE  FALSE
      <4>1. PICK p \in 0 .. active.m - 1, q \in 0 .. active.n - 1 : w = <<p, q>>
        BY <2>2 DEF GemmWrote, GemmOutputs
      <4>2. w[1] = p /\ w[2] = q
        BY <4>1
      <4>3. i = p /\ j = q
        BY <2>1, <3>4, <4>2, GemmApart
      <4> QED BY <3>1, <4>1, <4>3
    <3>5. memory[GemmAddressC(active, i, j)] = before[GemmAddressC(active, i, j)]
      BY <2>2, <3>3, <3>4 DEF GemmWrote, GemmProduct
    <3> QED BY <1>2, <3>2, <3>5
  <2>4. Cardinality(C) <= completed + 1
    <3>1. Cardinality(C) <= Cardinality(W) /\ Cardinality(C) \in Nat /\ Cardinality(W) \in Nat
          /\ Cardinality(W) <= completed + 1
      BY <2>2, <2>3, FS_Subset, FS_CardinalityType DEF GemmWrote
    <3> HIDE DEF C
    <3> QED BY <2>1, <3>1
  <2>5. GemmProduct(memory, before, active, C)
    <3>1. \A o \in C : GemmOf(active, before, o[1], o[2],
                              memory[GemmAddressC(active, o[1], o[2])])
      BY <2>2, <2>3 DEF GemmWrote, GemmProduct
    <3>2. ASSUME NEW a \in G!Space, \A o \in C : a # GemmAddressC(active, o[1], o[2])
          PROVE  memory[a] = before[a]
      <4>1. CASE \A o \in W : a # GemmAddressC(active, o[1], o[2])
        BY <2>2, <4>1 DEF GemmWrote, GemmProduct
      <4>2. CASE \E o \in W : a = GemmAddressC(active, o[1], o[2])
        <5>1. PICK o \in W : a = GemmAddressC(active, o[1], o[2])
          BY <4>2
        <5>2. o \in G!Outputs
          BY <1>1, <2>2 DEF GemmWrote
        <5> QED BY <1>2, <3>2, <5>1, <5>2
      <4> QED BY <4>1, <4>2
    <3> QED BY <3>1, <3>2 DEF GemmProduct
  <2> QED BY <1>4, <2>1, <2>4, <2>5
<1> QED BY <1>5, <1>6

----------------------------------------------------------------------------
(* The results of the three. *)

DataInv ==
  step = "open" =>
    /\ kind = "vector" => VectorData
    /\ kind = "reduction" => ReductionData
    /\ kind = "gemm" => GemmData

\* The results of the accelerator under test stay exact at every step.
LEMMA DataInductive ==
  /\ Init => DataInv
  /\ IInv /\ DataInv /\ [Next]_vars => DataInv'
<1>1. Init => DataInv
  <2>1. /\ VT!BenchInit(VT!Tests) => step # "open"
        /\ RT!BenchInit(RT!Tests) => step # "open"
        /\ GT!BenchInit(GT!Tests) => step # "open"
    BY DEF VT!BenchInit, RT!BenchInit, GT!BenchInit
  <2> QED BY <2>1, VectorDataStarts, ReductionDataStarts, GemmDataStarts DEF Init, DataInv
<1>2. ASSUME DataInv, Tested PROVE DataInv'
  BY <1>2, TestsStayTests DEF DataInv
<1>3. ASSUME IInv, DataInv, Open(VectorStep \/ ReductionStep \/ GemmStep) PROVE DataInv'
  <2>1. step = "open" /\ kind' = kind
    BY <1>3 DEF Open, OthersUnchanged
  <2>2. CASE VectorStep
    BY <1>3, <2>1, <2>2, VectorDataInductive DEF VectorStep, IInv, DataInv
  <2>3. CASE ReductionStep
    BY <1>3, <2>1, <2>3, ReductionDataInductive DEF ReductionStep, IInv, DataInv
  <2>4. CASE GemmStep
    BY <1>3, <2>1, <2>4, GemmDataInductive DEF GemmStep, IInv, DataInv
  <2> QED BY <1>3, <2>2, <2>3, <2>4 DEF Open
<1>4. ASSUME DataInv, UNCHANGED vars PROVE DataInv'
  <2>1. UNCHANGED <<kind, step, state>>
    BY <1>4 DEF vars, core, bench
  <2>2. VectorData => VectorData'
    BY <1>4, VectorDataKept DEF vars, core, vectorOnly, shared
  <2>3. ReductionData => ReductionData'
    BY <1>4, ReductionDataKept DEF vars, core, reductionOnly, shared
  <2>4. GemmData => GemmData'
    <3>1. GemmSame
      BY <1>4 DEF vars, core, gemmOnly, GemmSame
    <3> QED BY <2>1, <3>1, GemmDataKept DEF GemmData
  <2> QED BY <1>4, <2>1, <2>2, <2>3, <2>4 DEF DataInv
<1> QED BY <1>1, <1>2, <1>3, <1>4 DEF Next

\* Both invariants hold in every behaviour.
LEMMA DataAlways == Spec => [](IInv /\ DataInv)
<1>1. Init => IInv /\ DataInv
  BY Inductive, DataInductive
<1>2. IInv /\ DataInv /\ [Next]_vars => (IInv /\ DataInv)'
  BY Inductive, DataInductive
<1> QED BY <1>1, <1>2, PTL DEF Spec

\* A command answered without error has stored exactly what it is defined to
\* compute: for the vector accelerator every element, for the reduction the
\* sum or the maximum of the source, for the GEMM accelerator every inner
\* product. No padding lane, start value, neighbouring word or earlier tile
\* leaks in, and no intermediate sum outgrows its accumulator.
THEOREM ResultsAreExact == Spec => []ResultExact
<1>1. IInv /\ DataInv => ResultExact
  <2>1. SUFFICES ASSUME IInv, DataInv, step = "open" PROVE ResultExact
    BY DEF ResultExact
  <2>2. CASE kind = "vector"
    BY <2>1, <2>2, VectorAnswers DEF DataInv, ResultExact
  <2>3. CASE kind = "reduction"
    BY <2>1, <2>3, ReductionAnswers DEF DataInv, ResultExact
  <2>4. CASE kind = "gemm"
    BY <2>1, <2>4, GemmAnswers DEF DataInv, ResultExact
  <2> QED BY <2>1, <2>2, <2>3, <2>4 DEF IInv
<1> QED BY <1>1, DataAlways, PTL

\* A command answered with an error has either touched nothing, or was stopped
\* by a failing access and has left the results it reports as completed, at most
\* with the word or the output whose write failed: a prefix of the vector, the
\* one result of the reduction, exact entries of the matrix product.
THEOREM FailuresLeaveReported == Spec => []FailureLeavesReported
<1>1. IInv /\ DataInv => FailureLeavesReported
  <2>1. SUFFICES ASSUME IInv, DataInv, step = "open" PROVE FailureLeavesReported
    BY DEF FailureLeavesReported
  <2>2. CASE kind = "vector"
    BY <2>1, <2>2, VectorAnswers DEF DataInv, FailureLeavesReported
  <2>3. CASE kind = "reduction"
    BY <2>1, <2>3, ReductionAnswers DEF DataInv, FailureLeavesReported
  <2>4. CASE kind = "gemm"
    BY <2>1, <2>4, GemmAnswers DEF DataInv, FailureLeavesReported
  <2> QED BY <2>1, <2>2, <2>3, <2>4 DEF IInv
<1> QED BY <1>1, DataAlways, PTL
=============================================================================
