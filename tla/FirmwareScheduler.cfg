CONSTANTS
  None = None
  UINT32_MAX = 255
  kElementBytes = 2
  WordBytes = 4
  SPM_BASE_ADDR = 64
  SPM_SIZE_BYTES = 64
  FIRMWARE_TASK_SLOT_BYTES = 32
  FIRMWARE_SOURCE1_OFFSET = 8
  FIRMWARE_DESTINATION_OFFSET = 16
  DEFAULT_MAX_VECTOR_LENGTH = 4
  DEFAULT_MAX_REDUCTION_LENGTH = 4
  DEFAULT_MAX_GEMM_M = 2
  DEFAULT_MAX_GEMM_N = 2
  DEFAULT_MAX_GEMM_K = 2
  Calls <- MCCalls
SPECIFICATION FairSpec
INVARIANTS NoLostWakeup OwnershipConsistent StagesInOrder FailureIsOwn NoScratchConflict
PROPERTY TasksTerminate
