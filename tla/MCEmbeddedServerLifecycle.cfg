\* One Start racing Stop, ReloadSchema, registrations, Client and health checks (from the application and over HTTP), with the serve task free to fail on its own.
CONSTANTS
  c1 = c1
  c2 = c2
  o1 = o1
  o2 = o2
  r1 = r1
  Callers <- MCCallers
  Observers <- MCObservers
  Trigger = w
  None = none
  HasSchemaFiles = TRUE
  HealthCheckEnabled = TRUE
  MaxRetries = 1
  MaxStartCalls = 1
  MaxCalls = 2
  MaxTriggers = 0
  Requests <- MCRequests
  MaxHealthChecks = 1
SPECIFICATION Spec
PROPERTY LifecycleRefined
 
PROPERTY ClientGetsOpenConn
PROPERTY CallsReturn
CHECK_DEADLOCK FALSE
