CONSTANTS
  DMA_DATA_BYTES = 2
  MAX_BURST_BEATS = 2
  Regions <- MCRegions
  Spm <- MCSpm
  Dram <- MCDram
  Unwritten = Unwritten
  NoResponse = NoResponse
  Transfers <- MCTransfers
  MaxTransfers = 3
  RandomLengths = {1, 4, 7}
  RandomPorts <- MCRandomPorts
SPECIFICATION Spec
INVARIANTS CopyExact DoneMeansCopied RequestsInBounds
PROPERTIES TransferEnds DmaTestsPass
