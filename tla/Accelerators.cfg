CONSTANTS
  Vector <- MCVector
  Reduction <- MCReduction
  Gemm <- MCGemm
SPECIFICATION Spec
INVARIANTS ResultExact FailureLeavesReported AccessInScratchpad
PROPERTIES CommandEnds TestsPass
