\* One gateway.
CONSTANTS
  MaxHops = 1
SPECIFICATION Spec
INVARIANT StartupAsksRetry
CHECK_DEADLOCK FALSE
