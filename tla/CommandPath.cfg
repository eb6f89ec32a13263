CONSTANTS
  DEPTH = 2
  MAXIMUM_AGE = 1
  Commands <- MCCommands
  Unwritten = Unwritten
  Policies <- RoundRobinOnly
  Thresholds = {0}
  MAXIMUM_CYCLE_COUNT = 1
  NoResponse = NoResponse
  Outcomes <- MCOutcomes
SPECIFICATION FairSpec
PROPERTIES ResponseAnnouncedOnce ImplementsLedger EveryCommandAnswered
