SPECIFICATION FairSpec
CONSTANTS
  Jobs = {j1, j2}
  NoJob = NoJob
  Drainers = {d1}
  MaxWorkers = 2
  MaxAttempts = 1
  MaxQueueSize = 0
  MaxConcurrent = 0
  TtlJobs = {}
  DelayedJobs = {}
  DiscardJobs = {}
  UnknownJobs = {}
  Calls = {"enqueue", "drain"}
PROPERTIES
  DrainReturns
CHECK_DEADLOCK FALSE
