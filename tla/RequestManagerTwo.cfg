SPECIFICATION Spec
CONSTANTS
  Requests = {r1, r2}
  Disturbed = {}
  Sweeper = sweeper
  Nobody = nobody
  MaxTracked = 1
  MaxRecords = 1
  MaxTokens = 1
SYMMETRY Symmetry
INVARIANTS
  LiveIsTracked
CHECK_DEADLOCK FALSE
