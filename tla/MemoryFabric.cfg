CONSTANTS
  REQUESTER_COUNT = 3
  FABRIC_DATA_BYTES = 2
  Spm <- MCSpm
  Dram <- MCDram
  Requests <- MCRequests
  NoResponse = NoResponse
SPECIFICATION CountedSpec
INVARIANTS OvertakenBound
PROPERTIES ImplementsSharedMemory RequestAnswered
