SPECIFICATION FairSpec
CONSTANTS
  Jobs = {j1, j2, j3}
  NoJob = NoJob
  Drainers = {}
  MaxWorkers = 2
  MaxAttempts = 2
  MaxQueueSize = 0
  MaxConcurrent = 0
  TtlJobs = {}
  DelayedJobs = {j2}
  DiscardJobs = {j3}
  UnknownJobs = {}
  Calls = {"enqueue", "enqueueBatch", "clear"}
CHECK_DEADLOCK FALSE
PROPERTIES
  EveryJobSettles
