SPECIFICATION PartsSpec
CONSTANTS
  f1 = f1
  join = join
  cycle = cycle
  a = a
  b = b
  joined = joined
  x = x
  y = y
  r1 = r1
  r2 = r2
  Chains = {f1}
  Steps = 2
  Dags = {join, cycle}
  Nodes = {a, b, joined, x, y}
  NodesOf <- MCNodesOf
  Deps <- MCDeps
  Retriers = {r1, r2}
  MaxAttempts <- MCMaxAttempts
  MaxUnwritten = 1
  FlowBudgets <- MCFlowBudgets
  s1 = s1
  s2 = s2
  t1 = t1
  Schedules = {s1, s2}
  Loaded <- MCLoaded
  Period <- MCPeriod
  MaxRuns <- MCMaxRuns
  Ticks = {t1, t2}
  RunNows = {n1}
  MaxClock = 2
  Budgets <- MCBudgets
  j1 = j1
  j2 = j2
  j3 = j3
  Arrivals = {j1, j2, j3}
  KeyOf <- MCKeyOf
  TtlJobs = {j1}
  Ways <- MCWays
  PluginLists <- MCPluginLists
  MaxQueueSize = 1
  Tokens = 1
  RateWindow = 2
  DebounceWindow = 2
  MaxTime = 2
  MaxRetakes = 1
  HeapIds = {i1, i2, i3, i4}
  Urgencies <- MCUrgencies
  Nobody = Nobody
  Depth = 4
  MaxInserts = 4
  StoredJobs = {1, 2}
  Loops = {l1, l2}
  Candidates = 2
  IdMatches = TRUE
  MaxPushes = 3
  MaxDeaths = 1
  KeptJobs = {1, 2}
  Pollers = {1, 2}
  FirstPoller = 1
  MaxTries = 2
  MaxFailed = 2
  MaxEnds = 2
  Listed <- MCListed
  SliceSizes = {1, 2, 4}
  NativeChunk = 2
  Earlier = {{}, {2}, {3, 4}}
  Unfit = {{}, {4}}
  WatchedJobs = {1, 2}
  Awaiters = {u}
  MaxEvents = 7
  CronExpressions <- MCCronExpressions
  DateAt <- MCDateAt
  MinuteLength = 2
  SearchLimit = 14
  Gaps = {1, 2, 5}
  MaxMoments = 40
INVARIANTS
  
  SchedulesSound
  AdmissionSound
  AdaptersSound
PROPERTIES
  
  MissedRunsCoalesce
  OverfullOnlyByOverlap
  ImplementsQueue
CHECK_DEADLOCK FALSE
