\* Does every call, Stop in particular, return when the real watcher's debounced reload races Stop?
CONSTANTS
  c1 = c1
  o1 = o1
  f1 = f1
  s1 = s1
  d1 = d1
  Callers <- MCCallers
  Observers <- MCObservers
  Files <- MCFiles
  Siblings <- MCSiblings
  Dir = d1
  Trigger = w
  None = none
  HealthCheckEnabled = FALSE
  MaxRetries = 1
  MaxStartCalls = 1
  MaxCalls = 2
  Requests = {}
  MaxHealthChecks = 0
  EditKinds = {"write", "create"}
  MaxEdits = 2
SPECIFICATION Spec
PROPERTY CallsReturn
CHECK_DEADLOCK FALSE
