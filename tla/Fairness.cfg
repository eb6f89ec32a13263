CONSTANTS
  DEPTH = 3
  MAXIMUM_AGE = 4
  Commands <- MCCommands
  Unwritten = Unwritten
  Policies <- BothPolicies
  Thresholds = {1, 2}
SPECIFICATION CountedSpec
INVARIANT BypassBound
