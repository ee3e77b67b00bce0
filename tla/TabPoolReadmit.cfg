SPECIFICATION Spec
CONSTANTS
  Targets = {a}
  Tasks = {t1, t2}
  Scanners = {x}
  None = none
  MaxSessions = 3
  MaxTabs = 2
  MaxAttempts = 1
  MaxDetours = 0
SYMMETRY Symmetry
PROPERTIES
  ReadmittedAfterExit
CHECK_DEADLOCK FALSE
