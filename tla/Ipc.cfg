SPECIFICATION FairSpec
CONSTANTS
  Keys = {k1, k2}
  Children = {c1, c2}
  Calls = {a1}
  NoChild = NoChild
  MaxConcurrentPerShard = 1
  MaxFaults = 3
INVARIANTS
  RouterSound
  AnswersSound
CHECK_DEADLOCK FALSE
PROPERTIES
  CloseSparesOtherKeys
  EveryCallSettles
