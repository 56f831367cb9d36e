SPECIFICATION DocSpec
CONSTANTS
  DocIds = {1, 2}
  MaxField = 2
  Users = {u1, u2}
  MaxCalls = 3
INVARIANT FindReturnsAll
CHECK_DEADLOCK FALSE
