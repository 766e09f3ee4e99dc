SPECIFICATION Spec
CONSTANTS
  NoCursor = NoCursor
  Limit = 2
  MaxRows = 5
CHECK_DEADLOCK FALSE
INVARIANTS InRequestedOrder
