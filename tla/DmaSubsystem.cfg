CONSTANTS
  DMA_DATA_BYTES = 2
  MAX_BURST_BEATS = 2
  Regions <- MCRegions
  Unwritten = Unwritten
  NoResponse = NoResponse
  Transfers <- MCTransfers
  CommandIds = {1}
  MAXIMUM_CYCLE_COUNT = 2
SPECIFICATION FairSpec
INVARIANTS CompletionIsOwn RejectionNeverMasksCompletion
PROPERTY QueuedCommandAnswered
