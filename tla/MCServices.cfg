SPECIFICATION ServicesSpec
CONSTANTS
  x = x
  y = y
  t1 = t1
  t2 = t2
  t3 = t3
  a = a
  b = b
  None = None
  Map = Map
  Items = {x, y}
  Lists <- EmptyOrAll
  Threads = {t1, t2, t3}
  MaxAttempts <- Attempts2
  MaxQueued = 2
  Budgets <- FanOutBudgets
  MaxChildren = 2
  Budget = 3
  MaxTimers = 2
  WaitCases <- SomeWaits
  Steps = {a, b}
  Calls = {t1, t2, t3}
  Cap = 1
  Burst = 1
  Ttl = 2
  GateCases <- SomeGates
  Invocations = {t1, t2}
  Interval = 2
  Window = 6
  BeatCases <- SomeBeats
  Workers = {t1, t2}
  MaxTicks = 2
  MaxRuns = 5
  RetryLimit = 1
  StartCases <- SomeStarts
  Jobs = {a, b}
  Lanes = {1, 2}
  WorkerCases <- SomeBatches
  MaxTries = 2
  SetUpCases <- SomeSetUps
INVARIANTS TypeOK AggregatesEveryItem SlotsAccountedFor OneRunPerKey OwnOutcome
PROPERTIES ImplementsOneStep MapEnds NeverEarly EveryWaitEnds ImplementsSemaphore KeptWhileBeating NobodyIsForgotten EveryTickRuns EveryJobEnds EveryDispatchEnds
CHECK_DEADLOCK FALSE
