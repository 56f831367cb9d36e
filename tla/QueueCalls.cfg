SPECIFICATION Spec
CONSTANTS
  Jobs = {j1, j2, j3}
  NoJob = NoJob
  Drainers = {d1}
  MaxWorkers = 2
  MaxAttempts = 2
  MaxQueueSize = 2
  MaxConcurrent = 1
  TtlJobs = {j1}
  DelayedJobs = {}
  DiscardJobs = {}
  UnknownJobs = {j3}
  Calls = {"enqueue", "enqueueBatch", "pause", "drain", "clear", "shutdown"}
INVARIANTS
  CallsSound
  NoJobLost
  NoLostWakeup
CHECK_DEADLOCK FALSE
PROPERTIES
  PauseStartsAtMostOne
