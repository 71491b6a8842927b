\* A health request in flight while Stop shuts the health server down.
CONSTANTS
  c1 = c1
  c2 = c2
  o1 = o1
  o2 = o2
  r1 = r1
  Callers <- MCCallers
  Observers <- MCObservers
  Trigger = w
  None = none
  HasSchemaFiles = TRUE
  HealthCheckEnabled = TRUE
  MaxRetries = 2
  MaxStartCalls = 1
  MaxCalls = 2
  MaxTriggers = 0
  Requests <- MCRequests
  MaxHealthChecks = 1
SPECIFICATION Spec
PROPERTY StopReleasesHealthServer
CHECK_DEADLOCK FALSE
