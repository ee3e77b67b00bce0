SPECIFICATION FairSpec
CONSTANTS
  Requests = {r1}
  Disturbed = {r1}
  Sweeper = sweeper
  Nobody = nobody
  MaxTracked = 0
  MaxRecords = 1
  MaxTokens = 1
INVARIANTS
  TypeOK
  LeakedWorkerIsStopped
  HistoryOnce
  HistoryAgrees
  TotalsExact
PROPERTIES
  OutcomeFinal
  RequestEnds
CHECK_DEADLOCK FALSE
