\* Does a second Start (after Stop or after a failed Start) bring the service back?
CONSTANTS
  c1 = c1
  c2 = c2
  o1 = o1
  o2 = o2
  r1 = r1
  Callers <- MCCallers
  Observers <- MCObservers
  Trigger = w
  None = none
  HasSchemaFiles = TRUE
  HealthCheckEnabled = TRUE
  MaxRetries = 2
  MaxStartCalls = 2
  MaxCalls = 2
  MaxTriggers = 0
  Requests = {}
  MaxHealthChecks = 0
SPECIFICATION Spec
PROPERTY LifecycleRefined
CHECK_DEADLOCK FALSE
