\* dialWithRetry with the constants of server.go, cancellation at any moment.
CONSTANTS
  MaxRetries = 10
  InitialBackoff = 10
  MaxBackoff = 500
SPECIFICATION Spec
INVARIANT BackoffSchedule
INVARIANT CancelStopsRetrying
CHECK_DEADLOCK FALSE
