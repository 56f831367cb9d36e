SPECIFICATION SdkSpec
CONSTANTS
  Names = {a}
  Txns = {1}
  MaxSavepoints = 1
  Docs = {1, 2}
  Takers = {}
  Runners = {}
  MaxRetries = 1
INVARIANTS
  RollbackDiscards
CHECK_DEADLOCK FALSE
