-------------------------- MODULE GemmAccelerator ---------------------------
(***************************************************************************)
(* The GEMM accelerator (rtl/accel/gemm/gemm_accelerator.sv): C = A * B,   *)
(* one output tile after the other.  For every inner index it reads a      *)
(* column of A and a row of B of the tile and updates all accumulators,    *)
(* then it converts and writes the outputs of the tile one by one.         *)
(* tile_accumulation_complete, read by an assertion only, is left out.     *)
(***************************************************************************)
EXTENDS AcceleratorCore

CONSTANTS
  ACCUM_WIDTH,
  MAX_M, MAX_N, MAX_K,  \* largest dimensions
  TILE_M, TILE_N        \* shape of the tile

\* validate_parameters; 2^(ACCUM_WIDTH - 2 * ELEMENT_WIDTH - 1) counts the
\* products of a sum.
GemmParameters ==
  /\ MAX_M \in Nat \ {0} /\ MAX_N \in Nat \ {0} /\ MAX_K \in Nat \ {0}
  /\ TILE_M \in 1 .. MAX_M /\ TILE_N \in 1 .. MAX_N
  /\ ACCUM_WIDTH \in Nat /\ ACCUM_WIDTH - 2 * ELEMENT_WIDTH - 1 \in Nat
  /\ 2 ^ (ACCUM_WIDTH - 2 * ELEMENT_WIDTH - 1) >= MAX_K

Rows == 0 .. TILE_M - 1
Columns == 0 .. TILE_N - 1

VARIABLES
  tile_row_base, tile_column_base, k_index,
  load_row_index, load_column_index, write_row_index, write_column_index,
  a_values, b_values, tile_accumulators,
  outputs_written

loadVars == <<k_index, load_row_index, load_column_index>>
writeVars == <<write_row_index, write_column_index, outputs_written>>
tileVars == <<tile_row_base, tile_column_base>>
gemmVars == <<loadVars, writeVars, tileVars, a_values, b_values, tile_accumulators>>

vars == <<coreVars, gemmVars>>

----------------------------------------------------------------------------
(* Combinational functions. *)

Accum(value) == value % 2 ^ ACCUM_WIDTH
SignedAccum(value) ==
  IF value < 2 ^ (ACCUM_WIDTH - 1) THEN value ELSE value - 2 ^ ACCUM_WIDTH

multiply_elements(lhs, rhs) ==
  Accum(Meaning(lhs, active.signed) * Meaning(rhs, active.signed))

convert_accumulator(value) ==
  Convert(IF active.signed THEN SignedAccum(value) ELSE value,
          active.signed, active.saturate)

AtMost(limit, n) == IF n > limit THEN limit ELSE n

valid_tile_rows == AtMost(TILE_M, active.m - tile_row_base)
valid_tile_columns == AtMost(TILE_N, active.n - tile_column_base)

matrix_element_address(base, row, stride, column) == base + row * stride + column

ReadA == {"GEMM_READ_A_REQUEST", "GEMM_READ_A_RESPONSE"}
ReadB == {"GEMM_READ_B_REQUEST", "GEMM_READ_B_RESPONSE"}
WriteC == {"GEMM_WRITE_REQUEST", "GEMM_WRITE_RESPONSE"}

current_element_address ==
  CASE state \in ReadB ->
         matrix_element_address(active.src1, k_index, active.n,
                                tile_column_base + load_column_index)
    [] state \in WriteC ->
         matrix_element_address(active.dst, tile_row_base + write_row_index, active.n,
                                tile_column_base + write_column_index)
    [] OTHER ->
         matrix_element_address(active.src0, tile_row_base + load_row_index, active.k,
                                k_index)

current_lane == current_element_address % ELEMENTS_PER_WORD
current_word_address == current_element_address - current_lane

\* select_element of the word the memory returns.
response_element == Word(current_word_address)[current_lane]

output_element == convert_accumulator(tile_accumulators[write_row_index][write_column_index])

\* One lane of the output word is enabled.
Written == Store(current_word_address, [ZeroWord EXCEPT ![current_lane] = output_element],
                 {current_lane})

ranges_overlap(first, first_length, second, second_length) ==
  first < second + second_length /\ second < first + first_length

AStorage(command) == Storage(command.m * command.k)
BStorage(command) == Storage(command.k * command.n)
CStorage(command) == Storage(command.m * command.n)

OutOfBounds(command) ==
  \/ ~scratchpad_range_is_legal(command.src0, AStorage(command))
  \/ ~scratchpad_range_is_legal(command.src1, BStorage(command))
  \/ ~scratchpad_range_is_legal(command.dst, CStorage(command))

command_validation_error(command) ==
  IF command.opcode # "GEMM" THEN "ERR_OPCODE"
  ELSE IF \/ command.m \notin 1 .. MAX_M
          \/ command.n \notin 1 .. MAX_N
          \/ command.k \notin 1 .. MAX_K
    THEN "ERR_DIMENSION"
  ELSE IF \E base \in {command.src0, command.src1, command.dst} :
            ~address_is_word_aligned(base)
    THEN "ERR_ADDRESS"
  ELSE IF OutOfBounds(command) THEN "ERR_SPM_BOUNDS"
  ELSE IF \/ ranges_overlap(command.dst, CStorage(command), command.src0, AStorage(command))
          \/ ranges_overlap(command.dst, CStorage(command), command.src1, BStorage(command))
    THEN "ERR_ADDRESS"
  ELSE "ERR_NONE"

----------------------------------------------------------------------------

ZeroTile == [row \in Rows |-> [column \in Columns |-> 0]]

Init ==
  /\ CoreInit("GEMM_IDLE")
  /\ tile_row_base = 0 /\ tile_column_base = 0
  /\ k_index = 0 /\ load_row_index = 0 /\ load_column_index = 0
  /\ write_row_index = 0 /\ write_column_index = 0 /\ outputs_written = 0
  /\ a_values = [row \in Rows |-> 0]
  /\ b_values = [column \in Columns |-> 0]
  /\ tile_accumulators = ZeroTile

\* The indices and accumulators as reset and a new command leave them.
ClearIndices ==
  /\ tile_row_base' = 0 /\ tile_column_base' = 0
  /\ k_index' = 0 /\ load_row_index' = 0 /\ load_column_index' = 0
  /\ write_row_index' = 0 /\ write_column_index' = 0 /\ outputs_written' = 0
  /\ tile_accumulators' = ZeroTile

Reset ==
  /\ CoreReset("GEMM_IDLE")
  /\ ClearIndices
  /\ a_values' = [row \in Rows |-> 0]
  /\ b_values' = [column \in Columns |-> 0]

AcceptCommand(command) ==
  /\ Accept("GEMM_IDLE", "GEMM_READ_A_REQUEST", "GEMM_RESPONSE", command,
            command_validation_error(command))
  /\ ClearIndices
  /\ UNCHANGED <<a_values, b_values>>

Wait ==
  /\ Hold(ReadA \cup ReadB \cup WriteC \cup {"GEMM_IDLE", "GEMM_RESPONSE"})
  /\ UNCHANGED gemmVars

RequestFire ==
  /\ \/ Handshake("GEMM_READ_A_REQUEST", "GEMM_READ_A_RESPONSE")
     \/ Handshake("GEMM_READ_B_REQUEST", "GEMM_READ_B_RESPONSE")
     \/ Handshake("GEMM_WRITE_REQUEST", "GEMM_WRITE_RESPONSE")
  /\ UNCHANGED gemmVars

ElementOfARead ==
  LET last == load_row_index + 1 >= valid_tile_rows
  IN  /\ Handshake("GEMM_READ_A_RESPONSE",
                   IF last THEN "GEMM_READ_B_REQUEST" ELSE "GEMM_READ_A_REQUEST")
      /\ a_values' = [a_values EXCEPT ![load_row_index] = response_element]
      /\ load_column_index' = IF last THEN 0 ELSE load_column_index
      /\ load_row_index' = IF last THEN load_row_index ELSE load_row_index + 1
      /\ UNCHANGED <<k_index, writeVars, tileVars, b_values, tile_accumulators>>

ElementOfBRead ==
  LET last == load_column_index + 1 >= valid_tile_columns
  IN  /\ Handshake("GEMM_READ_B_RESPONSE",
                   IF last THEN "GEMM_MAC" ELSE "GEMM_READ_B_REQUEST")
      /\ b_values' = [b_values EXCEPT ![load_column_index] = response_element]
      /\ load_column_index' = IF last THEN load_column_index ELSE load_column_index + 1
      /\ UNCHANGED <<k_index, load_row_index, writeVars, tileVars, a_values,
                     tile_accumulators>>

MultiplyAccumulate ==
  LET more == k_index + 1 < active.k
  IN  /\ Handshake("GEMM_MAC", IF more THEN "GEMM_READ_A_REQUEST" ELSE "GEMM_WRITE_REQUEST")
      /\ tile_accumulators' =
           [row \in Rows |-> [column \in Columns |->
              IF row < valid_tile_rows /\ column < valid_tile_columns
                THEN Accum(tile_accumulators[row][column]
                             + multiply_elements(a_values[row], b_values[column]))
                ELSE tile_accumulators[row][column]]]
      /\ IF more
           THEN /\ k_index' = k_index + 1
                /\ load_row_index' = 0
                /\ UNCHANGED <<write_row_index, write_column_index>>
           ELSE /\ write_row_index' = 0
                /\ write_column_index' = 0
                /\ UNCHANGED <<k_index, load_row_index>>
      /\ UNCHANGED <<load_column_index, outputs_written, tileVars, a_values, b_values>>

\* The next output of the tile, column first.
NextOutput ==
  /\ Proceed("GEMM_WRITE_REQUEST", 1)
  /\ IF write_column_index + 1 < valid_tile_columns
       THEN /\ write_column_index' = write_column_index + 1
            /\ UNCHANGED write_row_index
       ELSE /\ write_row_index' = write_row_index + 1
            /\ write_column_index' = 0
  /\ UNCHANGED <<loadVars, tileVars, a_values, b_values, tile_accumulators>>

\* Faulty variant: the accumulators keep the sums of the tile before.
NextTileUncleared ==
  /\ Proceed("GEMM_READ_A_REQUEST", 1)
  /\ IF tile_column_base + valid_tile_columns >= active.n
       THEN /\ tile_column_base' = 0
            /\ tile_row_base' = tile_row_base + TILE_M
       ELSE /\ tile_column_base' = tile_column_base + TILE_N
            /\ UNCHANGED tile_row_base
  /\ k_index' = 0
  /\ load_row_index' = 0
  /\ load_column_index' = 0
  /\ UNCHANGED <<tile_accumulators, write_row_index, write_column_index, a_values, b_values>>

\* The next tile, to the right or in the next row of tiles.
NextTile ==
  /\ Proceed("GEMM_READ_A_REQUEST", 1)
  /\ IF tile_column_base + valid_tile_columns >= active.n
       THEN /\ tile_column_base' = 0
            /\ tile_row_base' = tile_row_base + TILE_M
       ELSE /\ tile_column_base' = tile_column_base + TILE_N
            /\ UNCHANGED tile_row_base
  /\ k_index' = 0
  /\ load_row_index' = 0
  /\ load_column_index' = 0
  /\ tile_accumulators' = ZeroTile
  /\ UNCHANGED <<write_row_index, write_column_index, a_values, b_values>>

OutputWritten ==
  LET tile_done == /\ write_column_index + 1 >= valid_tile_columns
                   /\ write_row_index + 1 >= valid_tile_rows
      all_done  == outputs_written + 1 = active.m * active.n
  IN  /\ state = "GEMM_WRITE_RESPONSE"
      /\ memory' = Written
      /\ outputs_written' = outputs_written + 1
      /\ \/ ~tile_done /\ NextOutput
         \/ tile_done /\ ~all_done /\ NextTile
         \/ /\ tile_done /\ all_done
            /\ Finish("GEMM_RESPONSE", "ERR_NONE", active.m * active.n, 1)
            /\ UNCHANGED <<loadVars, tileVars, write_row_index, write_column_index,
                           a_values, b_values, tile_accumulators>>

AccessFails ==
  /\ \/ MemoryError({"GEMM_READ_A_RESPONSE", "GEMM_READ_B_RESPONSE"}, "GEMM_RESPONSE",
                    {memory})
     \/ MemoryError({"GEMM_WRITE_RESPONSE"}, "GEMM_RESPONSE", {memory, Written})
  /\ UNCHANGED gemmVars

Respond == Handshake("GEMM_RESPONSE", "GEMM_IDLE") /\ UNCHANGED gemmVars

Advance ==
  \/ RequestFire
  \/ ElementOfARead
  \/ ElementOfBRead
  \/ MultiplyAccumulate
  \/ OutputWritten
  \/ AccessFails
  \/ Respond

Next == (\E command \in Offered : AcceptCommand(command)) \/ Wait \/ Advance \/ Reset

\* The memory and the command processor do not stall for ever.
Spec == Init /\ [][Next]_vars /\ WF_vars(Advance)

----------------------------------------------------------------------------
(* Properties. *)

Outputs == {<<i, j>> : i \in 0 .. active.m - 1, j \in 0 .. active.n - 1}

OutputAddress(o) == active.dst + o[1] * active.n + o[2]

\* C[i][j] is the inner product of the operands as they were.
IsProduct(element, o) ==
  IsElementFor(
    element,
    SumFunction([l \in 0 .. active.k - 1 |->
                   Meaning(before[active.src0 + o[1] * active.k + l], active.signed)
                     * Meaning(before[active.src1 + l * active.n + o[2]], active.signed)]),
    active.signed, active.saturate)

\* The given outputs are correct and nothing else changed.
Product(outputs) ==
  /\ \A o \in outputs : IsProduct(memory[OutputAddress(o)], o)
  /\ \A a \in Space \ {OutputAddress(o) : o \in outputs} : memory[a] = before[a]

\* A command answered without error computed the whole matrix product, each
\* output from the full inner dimension of its own row and column whatever the
\* tiles at the edges look like, and changed no other element.
ResultExact ==
  state = "GEMM_RESPONSE" /\ response.error = "ERR_NONE" =>
    /\ Product(Outputs)
    /\ response.result = active.m * active.n
    /\ completed = active.m * active.n

\* A failed command leaves exactly the outputs it reported, at most with the
\* one whose write failed; a rejected one leaves memory alone.
FailureKeepsOutputs ==
  state = "GEMM_RESPONSE" /\ response.error # "ERR_NONE" =>
    \/ completed = 0 /\ memory = before
    \/ /\ response.error = "ERR_ADDRESS"
       /\ LET changed == {o \in Outputs : memory[OutputAddress(o)] # before[OutputAddress(o)]}
          IN  Product(changed) /\ Cardinality(changed) <= completed + 1

\* Requests stay in the scratchpad, and a write only addresses an output of
\* the current tile (a_memory_access_in_scratchpad, a_write_index_in_tile).
AccessInScratchpad ==
  state \in {"GEMM_READ_A_REQUEST", "GEMM_READ_B_REQUEST", "GEMM_WRITE_REQUEST"} =>
    /\ scratchpad_range_is_legal(current_word_address, ELEMENTS_PER_WORD)
    /\ state = "GEMM_WRITE_REQUEST" =>
         write_row_index < valid_tile_rows /\ write_column_index < valid_tile_columns
=============================================================================
