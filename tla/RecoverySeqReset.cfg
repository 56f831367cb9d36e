SPECIFICATION RecSpec
CONSTANTS
  Jobs = {j1, j2}
  DelayedJobs = {}
  RetriedJobs = {j1}
  MaxAttempts = 2
  MaxCrashes = 2
  MaxSnapshots = 1
  SnapAtRest = TRUE
INVARIANTS
  LoggedJobSurvives
CHECK_DEADLOCK FALSE
