SPECIFICATION AlgorithmsSpec
CONSTANTS
  N = 3
  Statuses = {"pending", "running", "completed", "failed", "skipped"}
  M = 4
  Definitions <- SomeDefinitions
  Registered = {"known"}
  e1 = e1
  e2 = e2
  e3 = e3
  Errors = {e1, e2, e3}
  Thrown = e1
  MaxDepth = 2
  None = None
  Attempts <- SomeAttempts
  p = p
  q = q
  c1 = c1
  c2 = c2
  Runs = {1, 2}
  Ids = {1, 2, 3}
  Keys = {"k"}
  Times = {1, 2}
  Tenants = {p, q}
  Connections = {c1, c2}
  MaxCalls = 2
  Contents <- SomeContents
  s1 = s1
  s2 = s2
  Starters = {s1, s2}
  Concurrent = 1
  PerDay = 2
  PerMonth = 3
  MaxStarts = 4
  MaxEvents = 2
INVARIANTS LoopIsLeastFixpoint SkipsExactlyTheUnreachable ReturnsUndoOrder AcceptsExactlyRunnable NoDecisionOverridden OverrunBounded
PROPERTIES LoopTerminates ImplementsReference
CHECK_DEADLOCK FALSE
