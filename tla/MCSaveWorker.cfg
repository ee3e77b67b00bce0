SPECIFICATION Spec
CONSTANTS
  Callers = {a, b, c}
  Workers = {x, y, z}
  None = none
  MaxFaults = 1
  MaxRestarts = 1
PROPERTIES
  FileKeepsRows
  RowsLand
CHECK_DEADLOCK FALSE
