SPECIFICATION StorageSpec
CONSTANTS
  p1 = p1
  p2 = p2
  Threads = {p1, p2}
  MaxTxId = 3
  Setups <- MCSetups
  Keys = {k1, k2}
  RecordsPerPage = 2
  FlushLimit = 2
  MaxWrites = 3
  MaxSaves = 3
  MaxLives = 3
  Jobs = {j1, j2}
  DelayedJobs = {j2}
  RetriedJobs = {j1}
  MaxAttempts = 2
  MaxCrashes = 2
  MaxSnapshots = 2
  MaxMishaps = 3
  SnapAtRest = TRUE
  Clients = {c1, c2}
  GcWorkers = {g1}
  DocKeys = {m1}
  MaxIssuedId = 4
  DocIds = {1, 2}
  MaxField = 2
  Users = {u1, u2}
  MaxCalls = 3
INVARIANTS
  AckedSurvive
  ReplaySound
  CloseKeepsLive
  UnspoiltSaveSurvives
  JobsRecovered
  ChainsSound
  HorizonBelowActive
  DocumentsSound
PROPERTIES
  Implements
  RegistryKept
  GcSparesAboveHorizon
  SnapshotStable
CHECK_DEADLOCK FALSE
