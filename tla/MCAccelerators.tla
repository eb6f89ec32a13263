--------------------------- MODULE MCAccelerators ---------------------------
(* The builds that Accelerators.cfg checks. *)
EXTENDS Accelerators

----------------------------------------------------------------------------
(* Vector: 3-bit elements in a scratchpad of 4 words. *)

VectorSpm == [base |-> 2, size |-> 8]

\* Words at even and odd places hold independent data, so that every pair of
\* operands meets in a lane.
VectorContents ==
  {[a \in 0 .. 11 |-> IF (a \div 2) % 2 = 0 THEN (x + a) % 8 ELSE (y + 3 * a) % 8] :
     x \in 0 .. 7, y \in {0, 3, 5}}

VectorCommand(opcode, signed, saturate, length, place) ==
  [opcode |-> opcode, signed |-> signed, saturate |-> saturate, length |-> length,
   src0 |-> place[1], src1 |-> place[2], dst |-> place[3]]

\* Operands apart, in place on either source, and shifted down onto a source;
\* then legal and illegal descriptors: lengths at and beyond the limits,
\* addresses below, at the end of and misaligned in the scratchpad,
\* overlapping upwards.  A second command meets the registers the first left.
VectorCommands ==
  <<{VectorCommand(o, sg, st, len, p) :
       o \in {"ADD", "MULTIPLY", "SCALE", "RELU", "CLAMP"}, sg, st \in BOOLEAN,
       len \in {1, 3}, p \in {<<2, 4, 6>>, <<2, 4, 2>>, <<6, 4, 4>>, <<6, 4, 2>>}}
    \cup {VectorCommand(o, TRUE, TRUE, len, p) :
            o \in {"SCALE", "ADD", "RELU"}, len \in {0, 3, 4, 5},
            p \in {<<2, 6, 4>>, <<6, 8, 2>>, <<0, 2, 4>>, <<4, 10, 2>>, <<2, 3, 6>>}}
    \cup {VectorCommand("GEMM", FALSE, FALSE, 1, <<2, 4, 6>>)},
    {VectorCommand("SCALE", TRUE, FALSE, 1, <<2, 4, 6>>),
     VectorCommand("ADD", TRUE, TRUE, 5, <<2, 4, 6>>)}>>

MCVector ==
  [element_width |-> 3, elements_per_word |-> 2, spm |-> VectorSpm,
   commands |-> VectorCommands, contents |-> VectorContents, max_length |-> 4]

----------------------------------------------------------------------------
(* Reduction: 2-bit elements and the narrowest accumulator there may be. *)

\* Every content of the first four elements; a fixed pattern elsewhere.
ReductionContents ==
  {[a \in 0 .. 11 |-> IF a \in 2 .. 5 THEN f[a] ELSE (3 * a + 1) % 4] :
     f \in [2 .. 5 -> 0 .. 3]}

ReductionCommand(opcode, signed, saturate, length, src0, dst) ==
  [opcode |-> opcode, signed |-> signed, saturate |-> saturate, length |-> length,
   src0 |-> src0, dst |-> dst]

\* Full and partial words, the destination apart from and inside the source,
\* then descriptors at and beyond each limit.
ReductionCommands ==
  <<{ReductionCommand(o, sg, st, len, 2, d) :
       o \in {"SUM", "MAX"}, sg, st \in BOOLEAN, len \in {1, 3, 4}, d \in {4, 8}}
    \cup {ReductionCommand(o, TRUE, FALSE, len, s, d) :
            o \in {"MAX", "GEMM"}, len \in {0, 3, 4, 5}, s \in {0, 2, 3, 6},
            d \in {5, 8, 10}},
    {ReductionCommand("SUM", TRUE, FALSE, 1, 2, 8),
     ReductionCommand("MAX", TRUE, FALSE, 5, 2, 8)}>>

MCReduction ==
  [element_width |-> 2, elements_per_word |-> 2, spm |-> VectorSpm,
   commands |-> ReductionCommands, contents |-> ReductionContents, accum_width |-> 4,
   max_length |-> 4]

----------------------------------------------------------------------------
(* GEMM: 2-bit elements, dimensions up to 3, tiles of 2 by 2. *)

GemmSpm == [base |-> 2, size |-> 30]

GemmContents ==
  {[a \in 0 .. 33 |-> (x + y * a + a \div 3) % 4] : x \in 0 .. 3, y \in {1, 3}}

GemmCommand(signed, saturate, m, n, k, place) ==
  [opcode |-> "GEMM", signed |-> signed, saturate |-> saturate, m |-> m, n |-> n, k |-> k,
   src0 |-> place[1], src1 |-> place[2], dst |-> place[3]]

\* Every shape, so that tiles are full and partial in each dimension; then
\* shared inputs, touching and overlapping ranges, and each limit exceeded.
GemmCommands ==
  <<{GemmCommand(sg, st, m, n, k, <<2, 12, 22>>) :
       sg, st \in BOOLEAN, m \in 1 .. 3, n \in 1 .. 3, k \in 1 .. 3}
    \cup {GemmCommand(TRUE, TRUE, d[1], d[2], d[3], p) :
            d \in {<<3, 1, 2>>, <<1, 3, 1>>, <<3, 3, 3>>, <<0, 1, 1>>, <<1, 1, 4>>},
            p \in {<<2, 2, 22>>, <<2, 12, 8>>, <<12, 24, 2>>, <<2, 13, 22>>, <<0, 12, 22>>}}
    \cup {[GemmCommand(TRUE, TRUE, 1, 1, 1, <<2, 4, 6>>) EXCEPT !.opcode = "SUM"]},
    {GemmCommand(TRUE, FALSE, 1, 1, k, <<2, 12, 22>>) : k \in {1, 4}}>>

MCGemm ==
  [element_width |-> 2, elements_per_word |-> 2, spm |-> GemmSpm,
   commands |-> GemmCommands, contents |-> GemmContents, accum_width |-> 7,
   max_m |-> 3, max_n |-> 3, max_k |-> 3, tile_m |-> 2, tile_n |-> 2]

=============================================================================
