---------------------------- MODULE Accelerators ----------------------------
(***************************************************************************)
(* The three accelerators, one of them per behaviour (kind): they share    *)
(* the command and memory protocol but no state, so their properties are   *)
(* stated once here.  Each runs either on any build in an environment that *)
(* offers any command of a set, answers after any delay, may fail any      *)
(* access and resets at any time (step "open"), or on the scaled-down      *)
(* build of its test program, which drives it.                             *)
(***************************************************************************)
EXTENDS Integers, Sequences

VARIABLES
  kind,
  state, active, response, done, completed_event, memory, before, completed, accepted,
  source0_address, source1_address, source_address, destination_address,
  elements_remaining, source0_word, source1_word, source_word, scalar_element,
  accumulator, result_word,
  tile_row_base, tile_column_base, k_index, load_row_index, load_column_index,
  write_row_index, write_column_index, a_values, b_values, tile_accumulators,
  outputs_written,
  test, step, cycle, port, observed

----------------------------------------------------------------------------
(* The open builds, each a record: element_width, elements_per_word, spm,  *)
(* the commands offered, the contents memory starts with, and the limits   *)
(* of the accelerator.                                                     *)

CONSTANTS Vector, Reduction, Gemm

V == INSTANCE VectorAccelerator WITH
       ELEMENT_WIDTH <- Vector.element_width,
       ELEMENTS_PER_WORD <- Vector.elements_per_word, Spm <- Vector.spm,
       Commands <- Vector.commands, Contents <- Vector.contents,
       MAX_VECTOR_LENGTH <- Vector.max_length

R == INSTANCE ReductionAccelerator WITH
       ELEMENT_WIDTH <- Reduction.element_width,
       ELEMENTS_PER_WORD <- Reduction.elements_per_word, Spm <- Reduction.spm,
       Commands <- Reduction.commands, Contents <- Reduction.contents,
       ACCUM_WIDTH <- Reduction.accum_width, MAX_REDUCTION_LENGTH <- Reduction.max_length

G == INSTANCE GemmAccelerator WITH
       ELEMENT_WIDTH <- Gemm.element_width,
       ELEMENTS_PER_WORD <- Gemm.elements_per_word, Spm <- Gemm.spm,
       Commands <- Gemm.commands, Contents <- Gemm.contents,
       ACCUM_WIDTH <- Gemm.accum_width,
       MAX_M <- Gemm.max_m, MAX_N <- Gemm.max_n, MAX_K <- Gemm.max_k,
       TILE_M <- Gemm.tile_m, TILE_N <- Gemm.tile_n

\* Addresses of a descriptor are unsigned.
Offers(build, operands(_)) ==
  /\ Len(build.commands) \in Nat
  /\ \A i \in 1 .. Len(build.commands) : \A command \in build.commands[i] :
       operands(command) \subseteq Nat

ASSUME AddressesUnsigned ==
  /\ Offers(Vector, LAMBDA command : {command.src0, command.src1, command.dst})
  /\ Offers(Reduction, LAMBDA command : {command.src0, command.dst})
  /\ Offers(Gemm, LAMBDA command : {command.src0, command.src1, command.dst})

----------------------------------------------------------------------------
(* The builds of the test programs: 3-bit elements, the layout of the       *)
(* scratchpad scaled down.                                                  *)

BenchSpm == [base |-> 2, size |-> 52]

BenchContents ==
  {[a \in 0 .. 55 |-> (x + y * a + a \div 5) % 8] : x \in {0, 3}, y \in {1, 3}}

\* modulus, residue and latency as test_random_operations draws them.
Configs ==
  {[modulus |-> 4, residue |-> r, latency |-> l] : r \in {0, 3}, l \in {0, 3}}

VT == INSTANCE VectorBench WITH
       ELEMENT_WIDTH <- 3, ELEMENTS_PER_WORD <- 2, Spm <- BenchSpm, Commands <- <<>>,
       Contents <- BenchContents, MAX_VECTOR_LENGTH <- 16, kLane <- 16,
       kDestinationSentinel <- 5, RandomLengths <- {1, 2, 5}, RandomConfigs <- Configs

RT == INSTANCE ReductionBench WITH
       ELEMENT_WIDTH <- 3, ELEMENTS_PER_WORD <- 2, Spm <- BenchSpm, Commands <- <<>>,
       Contents <- BenchContents, MAX_REDUCTION_LENGTH <- 16, ACCUM_WIDTH <- 7, kLane <- 16,
       kDestinationSentinel <- 5, RandomLengths <- {1, 2, 3, 7}, RandomConfigs <- Configs

GT == INSTANCE GemmBench WITH
       ELEMENT_WIDTH <- 3, ELEMENTS_PER_WORD <- 2, Spm <- BenchSpm, Commands <- <<>>,
       Contents <- BenchContents, ACCUM_WIDTH <- 9, MAX_M <- 4, MAX_N <- 4, MAX_K <- 4,
       TILE_M <- 2, TILE_N <- 2, kLane <- 16, kDestinationSentinel <- 5,
       RandomShapes <- {<<1, 3, 2>>, <<3, 1, 1>>, <<2, 3, 3>>}, RandomConfigs <- Configs

\* The builds satisfy validate_parameters.
ASSUME ParametersValid ==
  /\ V!CoreParameters /\ V!VectorParameters /\ VT!CoreParameters /\ VT!VectorParameters
  /\ R!CoreParameters /\ R!ReductionParameters /\ RT!CoreParameters
  /\ RT!ReductionParameters
  /\ G!CoreParameters /\ G!GemmParameters /\ GT!CoreParameters /\ GT!GemmParameters

\* Memory starts with elements.
ASSUME ContentsAreElements ==
  /\ Vector.contents \subseteq [V!Space -> V!Elements]
  /\ Reduction.contents \subseteq [R!Space -> R!Elements]
  /\ Gemm.contents \subseteq [G!Space -> G!Elements]

\* The law of exponents, as far as the widths go; the provers have none.
ASSUME PowersOfTwo ==
  \A n \in 1 .. Vector.element_width + Reduction.accum_width + Gemm.accum_width :
    2 ^ n = 2 * 2 ^ (n - 1)

----------------------------------------------------------------------------

vectorOnly == <<source0_address, source1_address, source0_word, source1_word, scalar_element>>
reductionOnly == <<source_address, source_word, accumulator>>
shared == <<destination_address, elements_remaining, result_word>>
gemmOnly == <<tile_row_base, tile_column_base, k_index, load_row_index, load_column_index,
              write_row_index, write_column_index, a_values, b_values, tile_accumulators,
              outputs_written>>

core == <<state, active, response, done, completed_event, memory, before, completed, accepted>>
bench == <<test, step, cycle, port, observed>>

vars == <<kind, core, bench, vectorOnly, reductionOnly, shared, gemmOnly>>

NoVector == /\ source0_address = 0 /\ source1_address = 0 /\ scalar_element = 0
            /\ source0_word = 0 /\ source1_word = 0
NoReduction == source_address = 0 /\ source_word = 0 /\ accumulator = 0
NoShared == destination_address = 0 /\ elements_remaining = 0 /\ result_word = 0
NoGemm == /\ tile_row_base = 0 /\ tile_column_base = 0 /\ k_index = 0
          /\ load_row_index = 0 /\ load_column_index = 0
          /\ write_row_index = 0 /\ write_column_index = 0
          /\ a_values = 0 /\ b_values = 0 /\ tile_accumulators = 0 /\ outputs_written = 0

NoTest == test = <<>> /\ step = "open" /\ cycle = 0 /\ port = 0 /\ observed = 0

Init ==
  \/ /\ kind = "vector" /\ NoReduction /\ NoGemm
     /\ (V!Init /\ NoTest) \/ (VT!Init /\ VT!BenchInit(VT!Tests))
  \/ /\ kind = "reduction" /\ NoVector /\ NoGemm
     /\ (R!Init /\ NoTest) \/ (RT!Init /\ RT!BenchInit(RT!Tests))
  \/ /\ kind = "gemm" /\ NoVector /\ NoReduction /\ NoShared
     /\ (G!Init /\ NoTest) \/ (GT!Init /\ GT!BenchInit(GT!Tests))

VectorStep == kind = "vector" /\ V!Next
ReductionStep == kind = "reduction" /\ R!Next
GemmStep == kind = "gemm" /\ G!Next

VectorAdvance == kind = "vector" /\ V!Advance
ReductionAdvance == kind = "reduction" /\ R!Advance
GemmAdvance == kind = "gemm" /\ G!Advance

VectorTest == kind = "vector" /\ VT!BenchStep
ReductionTest == kind = "reduction" /\ RT!BenchStep
GemmTest == kind = "gemm" /\ GT!BenchStep

\* The registers of the other accelerators.
OthersUnchanged ==
  /\ UNCHANGED kind
  /\ kind # "vector" => UNCHANGED vectorOnly
  /\ kind # "reduction" => UNCHANGED reductionOnly
  /\ kind = "gemm" => UNCHANGED shared
  /\ kind # "gemm" => UNCHANGED gemmOnly

Tested == step # "open" /\ (VectorTest \/ ReductionTest \/ GemmTest) /\ OthersUnchanged

Open(Step) == step = "open" /\ Step /\ UNCHANGED bench /\ OthersUnchanged

Next == Tested \/ Open(VectorStep \/ ReductionStep \/ GemmStep)

Advance == Tested \/ Open(VectorAdvance \/ ReductionAdvance \/ GemmAdvance)

\* The memory, the command processor and the test program do not stall for ever.
Spec == Init /\ [][Next]_vars /\ WF_vars(Advance)

----------------------------------------------------------------------------
(* Properties. *)

\* A command answered without error stored exactly what it is defined to
\* compute and nothing else, and its events account for every element: no
\* padding lane, neighbouring word, start value or earlier tile leaks in.
ResultExact ==
  step = "open" =>
    CASE kind = "vector" -> V!ResultExact
      [] kind = "reduction" -> R!ResultExact
      [] kind = "gemm" -> G!ResultExact

\* A rejected command touches nothing; one that a memory error aborts leaves
\* the results it reported as completed, at most with the one whose write
\* failed.
FailureLeavesReported ==
  step = "open" =>
    CASE kind = "vector" -> V!FailureKeepsPrefix
      [] kind = "reduction" -> R!FailureKeepsMemory
      [] kind = "gemm" -> G!FailureKeepsOutputs

\* Requests stay in the scratchpad, the last partial word and the edge tiles
\* included (a_memory_access_in_scratchpad).
AccessInScratchpad ==
  step = "open" =>
    CASE kind = "vector" -> V!AccessInScratchpad
      [] kind = "reduction" -> R!AccessInScratchpad
      [] kind = "gemm" -> G!AccessInScratchpad

Idle == state \in {"VECTOR_IDLE", "REDUCTION_IDLE", "GEMM_IDLE"}

\* Every accepted command is answered and the accelerator becomes free: the
\* walk over words and tiles ends for all dimensions.
CommandEnds == ~Idle ~> Idle

\* Every test of vector_main.cpp, reduction_main.cpp and gemm_main.cpp passes,
\* for every drawn length, shape, flag, latency and blocking pattern: the
\* accelerators store what the C++ reference models compute, with the
\* documented number of requests, and no expectation throws or times out.
TestsPass == step # "open" ~> step = "passed"
=============================================================================
