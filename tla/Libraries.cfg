SPECIFICATION LibSpec
CONSTANTS
  Lock = Lock
  Cooldown = Cooldown
  Session = Session
  Spam = Spam
  PerSecond = PerSecond
  PerMinute = PerMinute
  Data = Data
  Counter = Counter
  Lockers = {h1, h2}
  Calls = {c1}
  Steps = 2
  Ttl0 <- MCTtl
  Limit <- MCLimit
  MaxKeys = 2
  Uses = {{Session, PerSecond, PerMinute}, {Lock, Cooldown, Spam}, {Data, Spam}, {Lock, Counter}}
  Plain = {p1}
  Onces = {o1}
  Waiters = {}
  TimedWaiters = {w1}
  MaxSets = 2
  MaxPlaces = 3
  MaxPublish = 2
  MaxDepth = 2
  bd1 = bd1
  bd2 = bd2
  Boards = {bd1, bd2}
  MembersOf <- MCMembers
  m1 = m1
  m2 = m2
  m3 = m3
  MaxScore = 1
  Targets = {t1, t2}
  MaxBuffer = 3
  MaxMessages = 5
  MaxTime = 2
  MaxStarts = 2
  MaxCount = 3
  MaxRestarts = 1
  Callers = {b2, b3, b4}
  FailureThreshold = 2
  RecoveryTime = 1
  MaxMoment = 3
  MaxFailures = 4
  Names = {a, b}
  Txns = {1, 2}
  MaxSavepoints = 2
  Docs = {1, 2}
  Takers = {c2, c3}
  Runners = {r1}
  MaxRetries = 1
  Places = {1, 2, 3, 4}
  BatchSize = 2
  Limits = {1, 4}
  Skips = {0, 1}
  Loops = {l1, l2}
  MaxWrites = 2
  Population = {1, 2, 3, 4}
  Conditions <- MCConditions
  FieldOf <- MCField
  OperatorOf <- MCOperator
  Selects <- MCSelects
  MaxCalls = 3
  Fields = {"a", "_id"}
  Values = {"o", "p", "nan"}
  MetaFields = {"_id"}
  DeepEqual <- MCDeepEqual
  MaxVersions = 3
  Rates = {1, 2}
  Moments = {300, 1000, 1500, 2600, 4000}
  MaxOps = 6
  Rows = {1, 2, 3, 4, 5, 6, 7, 8}
  Kinds = {"equal", "between", "in", "not in", "like", "not like", "null", "not null"}
  Truth <- MCTruth
  Nested = {"equal", "between", "not in"}
  Configs = {g1, g2}
  MaxSequence = 1
  Collections = {nc1, nc2}
  MaxMillis = 3
  MaxBack = 1
  MaxIds = 3
  co1 = co1
  co2 = co2
  Cols <- MCCols
  Ids = {1, 2}
  MaxValue = 1
  MaxFiles = 2
  MaxEdits = 2
  MaxImports = 1
  Policies <- MCPolicies
  UserKeys = {k1, k2}
  Orders = {or1, or2}
  Writers = {wr1}
  Changers = {ch1, ch2}
  Rules <- MCRules
  MaxSteps = 5
  Threads = {1, 2}
  Width = 2
  MaxDrift = 1
  Remotes <- MCRemotes
  MaxWall = 1
  MaxIssued = 2
  sp1 = sp1
  sp2 = sp2
  Storers = {sp1, sp2}
  Lookers = {q1}
  ChunksOf <- MCChunksOf
  CachePages = 2
  MaxReads = 2
  HashKeys = {hk}
  ListKeys = {lk}
  PlainKeys = {pk, pl}
  HashFields = {"level"}
  Lifetimes = {1}
  MaxLen = 1
  MaxChanges = 3
  MaxClock = 2
  Users = {"u1", "u:2", "u_2"}
  Groups = {"g1", "g2"}
  EscapedJid <- MCEscapedJid
  SessionTtl = 1
  MaxTurns = 4
  MaxHours = 2
  Corpus = {1, 2, 3}
  SortFields <- MCSortFields
  ValueIn <- MCValueIn
  Predicates = {{2, 3}}
  Sizes = {0, 1}
  MaxChain = 3
  Originals <- MCOriginals
  UpdateCalls <- MCUpdateCalls
  MaxUpdateCalls = 2
  MaxAttempts = 2
INVARIANTS
  StoresAndBoardsSound
  MessagesSound
  SdkSound
  ClosedBelowThreshold
  QueriesSayWhatTheyDo
  ShownIsTheVersion
  BurstIsBounded
  StampsIncrease
  DataSound
PROPERTIES
  EndsAndExpiriesKept
CHECK_DEADLOCK FALSE
