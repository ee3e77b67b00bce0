SPECIFICATION Spec
CONSTANTS
  Senders = {a, b}
  Starts <- MCStarts
  Backoff <- MCBackoff
  Window = 2
  MaxRetries = 2
  MaxEvents = 1
INVARIANTS
  WaitsForSent
CHECK_DEADLOCK FALSE
