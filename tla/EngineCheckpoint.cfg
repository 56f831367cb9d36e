SPECIFICATION EngSpec
CONSTANTS
  Keys = {k1, k2}
  RecordsPerPage = 2
  FlushLimit = 3
  MaxWrites = 3
  MaxSaves = 2
  MaxLives = 2
INVARIANTS CheckpointKeepsLive
CHECK_DEADLOCK FALSE
