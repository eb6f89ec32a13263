CONSTANTS
  DEPTH = 3
  MAXIMUM_AGE = 3
  Commands <- MCCommands
  Unwritten = Unwritten
  Policies <- MCPolicies
  Thresholds = {0, 2}
SPECIFICATION Spec
INVARIANTS TypeOK OccupancyExact LockedSelectionValid
PROPERTIES OfferHeld ImplementsPool
