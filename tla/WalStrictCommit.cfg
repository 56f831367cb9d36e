SPECIFICATION Spec
CONSTANTS
  p1 = p1
  p2 = p2
  Threads = {p1, p2}
  MaxTxId = 3
  Setups <- MCFlushed
INVARIANTS StrictCommitsSurvive
CHECK_DEADLOCK FALSE
