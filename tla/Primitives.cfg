CONSTANTS
  None = None
  Items = {1, 2}
  Any = Any
  Depths = {1, 2, 3, 4}
SPECIFICATION Spec
INVARIANT PrimitiveTestsPass
PROPERTY ImplementsChannel
