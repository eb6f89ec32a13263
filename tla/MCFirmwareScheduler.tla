------------------------ MODULE MCFirmwareScheduler -------------------------
(* The firmware scheduler on a scratchpad of two task slots of 32 bytes,     *)
(* with the largest workloads of each kind; DRAM lies below the scratchpad.  *)
EXTENDS FirmwareScheduler

\* Every call of the interface, with the largest operands, and calls that throw.
MCCalls ==
  {submit_dma_copy(0, 8, 3, 1), submit_dma_copy(0, 8, 0, 1),
   submit_vector_add(0, 8, 16, DEFAULT_MAX_VECTOR_LENGTH, 2, TRUE, TRUE),
   submit_vector_add(0, 8, 16, DEFAULT_MAX_VECTOR_LENGTH + 1, 2, TRUE, TRUE),
   submit_vector_relu_or_clamp(0, 8, 16, 3, FALSE, 1, TRUE),
   submit_vector_relu_or_clamp(0, 8, 16, 0, TRUE, 1, TRUE),
   submit_reduce_sum(0, 16, DEFAULT_MAX_REDUCTION_LENGTH, 1, TRUE, TRUE),
   submit_reduce_max(0, 16, 0, 1, TRUE),
   submit_gemm(0, 8, 16, <<2, 2, 2>>, 2, FALSE, FALSE),
   submit_gemm(0, 8, 16, <<1, 2, 3>>, 1, FALSE, FALSE)}

PairCalls == {submit_vector_relu_or_clamp(0, 8, 16, 3, FALSE, 1, TRUE)}
=============================================================================
