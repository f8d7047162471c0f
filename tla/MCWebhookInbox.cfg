CONSTANTS
  Events = {e1, e2}
  Deliveries = {d1, d2}
  None = None
SPECIFICATION Spec
CHECK_DEADLOCK FALSE
INVARIANT RetryProcessed
