CONSTANTS
  DEPTH = 3
  MAXIMUM_AGE = 3
  Commands <- MCCommands
  Unwritten = Unwritten
  Policies <- PriorityOnly
  Thresholds = {2}
SPECIFICATION EnabledSpec
PROPERTY StarvationProtection
