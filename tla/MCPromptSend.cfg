SPECIFICATION Spec
CONSTANTS
  Senders = {a}
  Starts <- MCStarts
  Backoff <- MCBackoff
  Window = 2
  MaxRetries = 2
  MaxEvents = 3
INVARIANTS
  SentOnce
  ConfirmedIsSent
  ComposerReturned
PROPERTIES
  CooldownIsSeen
  SendEnds
CHECK_DEADLOCK FALSE
