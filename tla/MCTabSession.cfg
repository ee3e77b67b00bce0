SPECIFICATION FairSpec
CONSTANTS
  Requests = {r1, r2}
  Commands = {c1}
  Terminators = {k1, k2}
  Forcer = forcer
  NoTask = none
  PreserveErrorTabs = FALSE
  MaxCount = 2
INVARIANTS
  TypeOK
  TeardownExclusive
  ExclusiveDriving
PROPERTIES
  RefundsOwnTenure
  InterruptHitsOnlyItsTask
  ImplementsLease
  GateLifts
  TabComesBack
CHECK_DEADLOCK FALSE
