SPECIFICATION Spec
CONSTANTS
  Targets = {a}
  Tasks = {t1, t2}
  Scanners = {x, y}
  None = none
  MaxSessions = 2
  MaxTabs = 2
  MaxAttempts = 1
  MaxDetours = 1
SYMMETRY Symmetry
INVARIANTS
  TypeOK
  QuarantinedIsOut
  OneDriver
  QuarantineIsWorkedOn
PROPERTIES
  ScanSparesLive
CHECK_DEADLOCK FALSE
